---- MODULE Spec2Model ----
(***************************************************************************)
(* Model of the insights engine of the cyber metrics dashboard             *)
(* (lib/insights/insightsEngine.ts) and of the handlers around it.         *)
(*                                                                         *)
(* Conventions of the model                                                *)
(*  - a Date is a record [y, m, d] (m in 1..12); all dates carry the same  *)
(*    time of day, so comparing getTime() is comparing (y, m, d);          *)
(*  - metric values are integers (numbers every double holds exactly);     *)
(*    every quotient the code computes is kept as an exact fraction        *)
(*    <<num, den>> with den >= 0, where den = 0 stands for the IEEE        *)
(*    results of a division by zero: <<1,0>> = +Infinity,                  *)
(*    <<-1,0>> = -Infinity, <<0,0>> = NaN;                                 *)
(*  - an optional field of an object is a sequence of length 0 or 1;       *)
(*  - a month string "YYYY-MM" is the pair <<y, m>>;                       *)
(*  - Date.now() is a count of milliseconds kept in `now`.                 *)
(***************************************************************************)
EXTENDS Integers, Sequences, FiniteSets, TLC

VARIABLES periods, tolerances, options, now, pc, filteredPeriods, result, status,
          env, requests, cache, logs, logged

\* the state of the server besides the database and the insights request
serverVars == <<env, requests, cache, logs, logged>>

vars == <<periods, tolerances, options, now, pc, filteredPeriods, result, status,
          serverVars>>

----------------------------------------------------------------------------
(* Bounds of the model *)

\* longest list of periods drawn with free dates and finalisation flags
MaxPeriods == 3
\* largest options.timeRange drawn
MaxTimeRange == 2
\* longest series of short-series inputs (many values)
MaxShortLen == 3
\* longest series of long-series inputs (few values)
MaxLongLen == 7
\* most milliseconds that pass between two readings of Date.now()
MaxTick == 1

----------------------------------------------------------------------------
(* Generic helpers *)

Abs(x) == IF x < 0 THEN -x ELSE x

Sgn(x) == IF x > 0 THEN 1 ELSE IF x < 0 THEN -1 ELSE 0

RECURSIVE SumSeq(_)
SumSeq(s) == IF s = <<>> THEN 0 ELSE Head(s) + SumSeq(Tail(s))

\* Array.prototype.slice(-k)
LastN(s, k) == IF Len(s) <= k THEN s ELSE SubSeq(s, Len(s) - k + 1, Len(s))

\* Array.prototype.slice(0, k)
FirstN(s, k) == IF Len(s) <= k THEN s ELSE SubSeq(s, 1, k)

RECURSIVE Flatten(_)
Flatten(ss) == IF ss = <<>> THEN <<>> ELSE Head(ss) \o Flatten(Tail(ss))

Range(s) == {s[i] : i \in 1..Len(s)}

\* the elements of a finite set of integers in ascending order
RECURSIVE AscendingSeq(_)
AscendingSeq(S) ==
  IF S = {} THEN <<>>
  ELSE LET lo == CHOOSE x \in S : \A y \in S : x <= y
       IN <<lo>> \o AscendingSeq(S \ {lo})

\* the sequences over S of length lo..hi
SeqsOf(S, lo, hi) == UNION {[1..n -> S] : n \in lo..hi}

\* Array.prototype.sort with a comparator (stable), for a comparator that
\* orders consistently; before[<<i, j>>] is "the comparator puts s[i]
\* strictly before s[j]".  Element i lands after the elements strictly before it and the
\* earlier elements the comparator ties with it.
StableSort(s, before) ==
  LET n == Len(s)
      Rank(i) == Cardinality({j \in 1..n : \/ before[<<j, i>>]
                                           \/ (j < i /\ ~before[<<i, j>>])}) + 1
      rank == [i \in 1..n |-> Rank(i)]
  IN [k \in 1..n |-> s[CHOOSE i \in 1..n : rank[i] = k]]

\* the pairs of indices of the sequence s
Pairs(s) == (1..Len(s)) \X (1..Len(s))

----------------------------------------------------------------------------
(* Numbers: the fractions of the conventions above *)

\* a / b in IEEE arithmetic, for integers a and b
Div(a, b) ==
  IF b > 0 THEN <<a, b>>
  ELSE IF b < 0 THEN <<-a, -b>>
  ELSE <<Sgn(a), 0>>

\* mutant: the comparison made without Math.abs
AbsGtMutant(x, c) == IF x[2] = 0 THEN x[1] > 0 ELSE x[1] > c * x[2]

\* Math.abs(x) > c, for a fraction x and an integer c >= 0
AbsGt(x, c) == IF x[2] = 0 THEN x[1] # 0 ELSE Abs(x[1]) > c * x[2]

\* x > 0 and x < 0 (both false of NaN)
IsPos(x) == x[1] > 0
IsNeg(x) == x[1] < 0

\* x = y as numbers (NaN equals nothing)
SameNumber(x, y) ==
  IF x[2] = 0 \/ y[2] = 0 THEN x[2] = 0 /\ y[2] = 0 /\ x[1] = y[1] /\ x[1] # 0
  ELSE x[1] * y[2] = y[1] * x[2]

\* ((cur - prev) / prev) * 100 where cur = cn / d and prev = pn / d, d > 0
PctChange(cn, pn) == Div(100 * (cn - pn), pn)

----------------------------------------------------------------------------
(* Dates *)

IsLeap(y) == (y % 4 = 0 /\ y % 100 # 0) \/ y % 400 = 0

DaysInMonth(y, m) ==
  IF m = 2 THEN (IF IsLeap(y) THEN 29 ELSE 28)
  ELSE IF m \in {4, 6, 9, 11} THEN 30 ELSE 31

\* months since year 0 of the month of a date
MonthIndex(dt) == dt.y * 12 + (dt.m - 1)

\* getTime(), up to a monotone renaming
GetTime(dt) == MonthIndex(dt) * 32 + dt.d

\* new Date(year, monthIndex, day) for 1 <= day <= 31: a day past the end of
\* the month rolls over into the next month
MakeDate(mi, day) ==
  LET y == mi \div 12
      m == (mi % 12) + 1
      len == DaysInMonth(y, m)
  IN IF day <= len THEN [y |-> y, m |-> m, d |-> day]
     ELSE [y |-> (mi + 1) \div 12, m |-> ((mi + 1) % 12) + 1, d |-> day - len]

\* date.setMonth(date.getMonth() - n)
SetMonthBack(dt, n) == MakeDate(MonthIndex(dt) - n, dt.d)

\* date.setDate(1)
SetDateFirst(dt) == [dt EXCEPT !.d = 1]

\* date.setFullYear(date.getFullYear() - 1)
SetFullYearBack(dt) == MakeDate(MonthIndex(dt) - 12, dt.d)

\* `${getFullYear()}-${padStart(getMonth() + 1)}` and toISOString().slice(0, 7)
MonthString(dt) ==
  ToString(dt.y) \o "-" \o (IF dt.m < 10 THEN "0" ELSE "") \o ToString(dt.m)

----------------------------------------------------------------------------
(* Periods and readings *)

\* period.metrics.find(m => m.metricNumber === metricNumber): <<>> or <<reading>>
FindMetric(period, metricNumber) ==
  LET hits == SelectSeq(period.metrics, LAMBDA r : r.metricNumber = metricNumber)
  IN IF hits = <<>> THEN <<>> ELSE <<Head(hits)>>

\* metric && !metric.isNA && metric.value !== null && metric.value !== undefined
Usable(found) == found # <<>> /\ ~found[1].isNA /\ found[1].value # <<>>

\* tolerances.find(t => t.metricNumber === metricNumber)
FindTolerance(tols, metricNumber) ==
  LET hits == SelectSeq(tols, LAMBDA t : t.metricNumber = metricNumber)
  IN IF hits = <<>> THEN <<>> ELSE <<Head(hits)>>

\* tolerance?.isLowerBetter ?? false
IsLowerBetter(tols, metricNumber) ==
  LET t == FindTolerance(tols, metricNumber)
  IN IF t = <<>> THEN FALSE ELSE t[1].isLowerBetter

\* mutant: the periods taken in the order of the input list
SortPeriodsAscMutant(ps) == ps

\* [...periods].sort((a, b) => aDate.getTime() - bDate.getTime())
SortPeriodsAsc(ps) ==
  StableSort(ps, [c \in Pairs(ps) |->
                   GetTime(ps[c[1]].startDate) < GetTime(ps[c[2]].startDate)])

\* mutant: the periods taken in the order of the input list
SortPeriodsDescMutant(ps) == ps

\* [...periods].sort((a, b) => bDate.getTime() - aDate.getTime())
SortPeriodsDesc(ps) ==
  StableSort(ps, [c \in Pairs(ps) |->
                   GetTime(ps[c[1]].startDate) > GetTime(ps[c[2]].startDate)])

\* one point of a MetricTimeSeries
SeriesPoint(period, metricNumber) ==
  [month |-> MonthString(period.startDate),
   value |-> FindMetric(period, metricNumber)[1].value[1],
   periodId |-> period.id]

prepareMetricTimeSeries(ps, metricNumber) ==
  LET sortedPeriods == SortPeriodsAsc(ps)
      kept == SelectSeq(sortedPeriods,
                        LAMBDA p : Usable(FindMetric(p, metricNumber)))
  IN [i \in 1..Len(kept) |-> SeriesPoint(kept[i], metricNumber)]

\* series.map(v => v.value)
Values(series) == [i \in 1..Len(series) |-> series[i].value]

\* series.map(v => ({ month: v.month, value: v.value }))
Evidence(series) ==
  [i \in 1..Len(series) |-> [month |-> series[i].month, value |-> series[i].value]]

----------------------------------------------------------------------------
(* Statistics toolkit.  The values are integers; a mean is kept as the pair *)
(* of its sum and its count, a standard deviation as the integer           *)
(* D = n * sum of squares - (sum)^2, of which it is sqrt(D) / n.           *)

\* n^2 times the population variance of vs; stdDev returns 0 below 2 values
VarianceN2(vs) ==
  LET n == Len(vs)
      s == SumSeq(vs)
      sq == SumSeq([i \in 1..n |-> vs[i] * vs[i]])
  IN IF n < 2 THEN 0 ELSE n * sq - s * s

\* mutant: the z-score against all the points, the tested one included
zScoreMutant(value, vs) ==
  LET all == Append(vs, value)
      d == Len(all) * SumSeq([i \in 1..Len(all) |-> all[i] * all[i]])
             - SumSeq(all) * SumSeq(all)
  IN IF d = 0 THEN <<0, 1>> ELSE <<Len(all) * value - SumSeq(all), d>>

\* zScore(value, values) as the pair <<a, D>> standing for a / sqrt(D):
\* (value - avg) / sd = (n * value - sum) / sqrt(D); 0 when sd = 0
zScore(value, vs) ==
  LET n == Len(vs)
      d == VarianceN2(vs)
  IN IF d = 0 THEN <<0, 1>> ELSE <<n * value - SumSeq(vs), d>>

\* z > c and z < -c for an integer c >= 0, and Math.abs(z) > c
ZAbove(z, c) == z[1] > 0 /\ z[1] * z[1] > c * c * z[2]
ZBelow(z, c) == z[1] < 0 /\ z[1] * z[1] > c * c * z[2]
ZAbsGt(z, c) == z[1] * z[1] > c * c * z[2]

\* twice the median of the sorted sequence s (s non-empty)
Median2(s) ==
  LET len == Len(s)
  IN IF len % 2 = 0 THEN s[len \div 2] + s[(len \div 2) + 1]
     ELSE 2 * s[(len \div 2) + 1]

\* quartiles(values), each doubled: [q1, q2, q3] of the median-of-halves method
quartiles(vs) ==
  LET sorted == StableSort(vs, [c \in Pairs(vs) |-> vs[c[1]] < vs[c[2]]])
      len == Len(sorted)
      lowerHalf == SubSeq(sorted, 1, len \div 2)
      upperHalf == SubSeq(sorted, (len + 1) \div 2 + 1, len)
  IN [q1 |-> Median2(lowerHalf), q2 |-> Median2(sorted), q3 |-> Median2(upperHalf)]

----------------------------------------------------------------------------
(* Insights *)

\* generateInsightId(type, metricNumber, suffix) evaluated at time t
generateInsightId(type, metricNumber, suffix, t) ==
  type \o "-m" \o ToString(metricNumber)
       \o (IF suffix # "" THEN "-" \o suffix ELSE "") \o "-" \o ToString(t)

\* an Insight object; title holds the part of the title after the metric name
\* and reported the number its summary and notes report, as a fraction: the
\* length of a streak, a forecast (<<>> if none).  Of the texts, summary keeps
\* the closing sentence where the code chooses one, and is empty elsewhere;
\* recommendations are left out; aiEnhanced is FALSE for "not set".
Insight(id, type, title, severity, metricKeys, period, values, changePct, z, reported) ==
  [id |-> id, type |-> type, title |-> title, severity |-> severity,
   metricKeys |-> metricKeys, period |-> period, values |-> values,
   changePct |-> changePct, zScore |-> z, reported |-> reported,
   summary |-> "", recommendations |-> <<>>, aiEnhanced |-> FALSE,
   \* evidence.notes, counted from the notes the generator wrote
   notes |-> <<>>]

\* options.metricNumbers || [1, ..., 11]
DefaultMetricNumbers == <<1, 2, 3, 4, 5, 6, 7, 8, 9, 10, 11>>

MetricNumbersOf(opts) ==
  IF opts.metricNumbers = <<>> THEN DefaultMetricNumbers ELSE opts.metricNumbers[1]

----------------------------------------------------------------------------
(* Trend generator *)

\* thresholds of generateTrendInsights, in percent
MomThreshold == 5
MomWarning == 20
Avg3Threshold == 10
Avg3Warning == 20
Avg6Threshold == 15
LeaderWarning == 10

\* the month-over-month insight of one metric (series has >= 2 points)
TrendMom(series, metricNumber, t) ==
  LET recent == series[Len(series)]
      previous == series[Len(series) - 1]
      momChange == PctChange(recent.value, previous.value)
  IN IF AbsGt(momChange, MomThreshold)
     THEN <<Insight(generateInsightId("trend", metricNumber, "mom", t), "trend",
                    IF IsPos(momChange) THEN "Improvement This Month"
                                        ELSE "Decline This Month",
                    IF AbsGt(momChange, MomWarning) THEN "warning" ELSE "info",
                    <<metricNumber>>,
                    <<[start |-> previous.month, end |-> recent.month]>>,
                    Evidence(<<previous, recent>>),
                    <<momChange>>, <<>>, <<>>)>>
     ELSE <<>>

\* the rolling-average insights of one metric
TrendAverages(series, metricNumber, t) ==
  LET current == series[Len(series)].value
      last3 == LastN(series, 3)
      last6 == LastN(series, 6)
      diff3 == PctChange(3 * current, SumSeq(Values(last3)))
      diff6 == PctChange(6 * current, SumSeq(Values(last6)))
      a3 == IF AbsGt(diff3, Avg3Threshold)
            THEN <<Insight(generateInsightId("trend", metricNumber, "avg3", t), "trend",
                           IF IsPos(diff3) THEN "Above 3-Month Average"
                                           ELSE "Below 3-Month Average",
                           IF AbsGt(diff3, Avg3Warning) THEN "warning" ELSE "info",
                           <<metricNumber>>, <<>>, Evidence(last3), <<diff3>>, <<>>, <<>>)>>
            ELSE <<>>
      a6 == IF Len(series) >= 6 /\ AbsGt(diff6, Avg6Threshold)
            THEN <<Insight(generateInsightId("trend", metricNumber, "avg6", t), "trend",
                           IF IsPos(diff6) THEN "Above 6-Month Average"
                                           ELSE "Below 6-Month Average",
                           "info",
                           <<metricNumber>>, <<>>, Evidence(last6), <<diff6>>, <<>>, <<>>)>>
            ELSE <<>>
  IN IF Len(series) >= 3 THEN a3 \o a6 ELSE <<>>

\* the body of the loop over the metric numbers
TrendForMetric(ps, metricNumber, t) ==
  LET series == prepareMetricTimeSeries(ps, metricNumber)
  IN IF Len(series) < 2 THEN <<>>
     ELSE TrendMom(series, metricNumber, t) \o TrendAverages(series, metricNumber, t)

\* x > y for two fractions, as the comparator's sign test sees it
FracGt(x, y) ==
  IF (x[2] = 0 /\ x[1] = 0) \/ (y[2] = 0 /\ y[1] = 0) THEN FALSE
  ELSE IF x[2] = 0 /\ y[2] = 0 THEN x[1] > y[1]
  ELSE IF x[2] = 0 THEN x[1] > 0
  ELSE IF y[2] = 0 THEN y[1] < 0
  ELSE x[1] * y[2] > y[1] * x[2]

\* metricChanges: one entry per requested metric with >= 2 points
MetricChanges(ps, metricNumbers) ==
  LET withData == SelectSeq(metricNumbers,
                    LAMBDA m : Len(prepareMetricTimeSeries(ps, m)) >= 2)
      ChangeOf(m) == LET s == prepareMetricTimeSeries(ps, m)
                     IN PctChange(s[Len(s)].value, s[Len(s) - 1].value)
  IN [i \in 1..Len(withData) |->
        [metricNumber |-> withData[i], change |-> ChangeOf(withData[i])]]

\* top improving / degrading metrics
TrendLeaderboard(ps, metricNumbers, t) ==
  LET changes == MetricChanges(ps, metricNumbers)
      \* metricChanges.sort(desc).filter(change > 0).slice(0, 3): the entries
      \* that pass the filter, in descending order, ties in list order
      improving == SelectSeq(changes, LAMBDA c : IsPos(c.change))
      topImproving ==
        FirstN(StableSort(improving, [c \in Pairs(improving) |->
                 FracGt(improving[c[1]].change, improving[c[2]].change)]), 3)
      \* metricChanges.filter(change < 0).sort(asc).slice(0, 3)
      degrading == SelectSeq(changes, LAMBDA c : IsNeg(c.change))
      topDegrading ==
        FirstN(StableSort(degrading, [c \in Pairs(degrading) |->
                 FracGt(degrading[c[2]].change, degrading[c[1]].change)]), 3)
      up == IF topImproving # <<>>
            THEN <<Insight(generateInsightId("trend", 0, "top-improving", t), "trend",
                           "Top Improving Metrics This Month", "info",
                           [i \in 1..Len(topImproving) |-> topImproving[i].metricNumber],
                           <<>>, <<>>, <<>>, <<>>, <<>>)>>
            ELSE <<>>
      down == IF topDegrading # <<>>
              THEN <<Insight(generateInsightId("trend", 0, "top-degrading", t), "trend",
                             "Metrics Requiring Attention",
                             IF AbsGt(topDegrading[1].change, LeaderWarning)
                             THEN "warning" ELSE "info",
                             [i \in 1..Len(topDegrading) |-> topDegrading[i].metricNumber],
                             <<>>, <<>>, <<>>, <<>>, <<>>)>>
              ELSE <<>>
  IN IF Len(ps) >= 2 /\ Len(metricNumbers) > 1 THEN up \o down ELSE <<>>

generateTrendInsights(ps, opts, t) ==
  LET metricNumbers == MetricNumbersOf(opts)
  IN Flatten([i \in 1..Len(metricNumbers) |-> TrendForMetric(ps, metricNumbers[i], t)])
     \o TrendLeaderboard(ps, metricNumbers, t)

----------------------------------------------------------------------------
(* Anomaly generator *)

MinAnomalyPoints == 3
MinZScorePoints == 6
MinIqrPoints == 4
ZThreshold == 2
ZCritical == 3

\* isLowerBetter ? z > 2 : z < -2
\* mutant: every deviation beyond the threshold counted as bad
IsBadAnomalyMutant(z, isLowerBetter) == ZAbsGt(z, ZThreshold)

IsBadAnomaly(z, isLowerBetter) ==
  IF isLowerBetter THEN ZAbove(z, ZThreshold) ELSE ZBelow(z, ZThreshold)

\* the z-score insight of one metric, its id generated at time tz
AnomalyZ(series, metricNumber, isLowerBetter, tz) ==
  LET values == Values(series)
      recent == series[Len(series)]
      historicalValues == SubSeq(values, 1, Len(values) - 1)
      z == zScore(recent.value, historicalValues)
      isBadAnomaly == IsBadAnomaly(z, isLowerBetter)
  IN IF Len(series) >= MinZScorePoints /\ isBadAnomaly /\ ZAbsGt(z, ZThreshold)
     THEN <<Insight(generateInsightId("anomaly", metricNumber, "zscore", tz), "anomaly",
                    IF isLowerBetter THEN "Unusual High Value Detected"
                                     ELSE "Unusual Low Value Detected",
                    IF ZAbsGt(z, ZCritical) THEN "critical" ELSE "warning",
                    <<metricNumber>>,
                    <<[start |-> series[1].month, end |-> recent.month]>>,
                    Evidence(series), <<>>, <<z>>, <<>>)>>
     ELSE <<>>

\* recent.value > q3 + 1.5 * iqr, resp. recent.value < q1 - 1.5 * iqr, for
\* the doubled quartiles q: both sides are multiplied by 4
AboveUpperBound(v, q) == 4 * v > 2 * q.q3 + 3 * (q.q3 - q.q1)
BelowLowerBound(v, q) == 4 * v < 2 * q.q1 - 3 * (q.q3 - q.q1)

\* isLowerBetter ? recent.value > upperBound : recent.value < lowerBound
IsBadOutlier(v, q, isLowerBetter) ==
  IF isLowerBetter THEN AboveUpperBound(v, q) ELSE BelowLowerBound(v, q)

\* the IQR insight of one metric; insights is the list pushed so far, and tq
\* the time at which the z-score id is rebuilt for the lookup and the IQR id
\* is generated
AnomalyIqr(insights, series, metricNumber, isLowerBetter, tq) ==
  LET values == Values(series)
      recent == series[Len(series)]
      historicalValues == SubSeq(values, 1, Len(values) - 1)
      q == quartiles(historicalValues)
      isBadOutlier == IsBadOutlier(recent.value, q, isLowerBetter)
      existing == \E i \in 1..Len(insights) :
                     insights[i].id = generateInsightId("anomaly", metricNumber, "zscore", tq)
  IN IF Len(series) >= MinIqrPoints /\ isBadOutlier /\ ~existing
     THEN <<Insight(generateInsightId("anomaly", metricNumber, "iqr", tq), "anomaly",
                    "Outlier Detected", "warning",
                    <<metricNumber>>,
                    <<[start |-> series[1].month, end |-> recent.month]>>,
                    Evidence(series), <<>>, <<>>, <<>>)>>
     ELSE <<>>

\* the loop over metricNumbers[k..]: insights is the list so far, t the time
\* at the start of iteration k, and ticks[k] the milliseconds that pass between
\* the generation of the z-score id and the lookup of the IQR path
RECURSIVE AnomalyLoop(_, _, _, _, _, _, _)
AnomalyLoop(ps, metricNumbers, tols, k, insights, t, ticks) ==
  IF k > Len(metricNumbers) THEN insights
  ELSE LET metricNumber == metricNumbers[k]
           series == prepareMetricTimeSeries(ps, metricNumber)
           isLowerBetter == IsLowerBetter(tols, metricNumber)
           tq == t + ticks[k]
           afterZ == insights \o AnomalyZ(series, metricNumber, isLowerBetter, t)
           afterIqr == afterZ \o AnomalyIqr(afterZ, series, metricNumber, isLowerBetter, tq)
       IN IF Len(series) < MinAnomalyPoints
          THEN AnomalyLoop(ps, metricNumbers, tols, k + 1, insights, tq, ticks)
          ELSE AnomalyLoop(ps, metricNumbers, tols, k + 1, afterIqr, tq, ticks)

generateAnomalyInsights(ps, opts, tols, t, ticks) ==
  AnomalyLoop(ps, MetricNumbersOf(opts), tols, 1, <<>>, t, ticks)

----------------------------------------------------------------------------
(* Milestone generator *)

MinStreak == 4
Last12 == 12

SeqMax(vs) == CHOOSE x \in Range(vs) : \A y \in Range(vs) : y <= x
SeqMin(vs) == CHOOSE x \in Range(vs) : \A y \in Range(vs) : y >= x

\* new high / new low in the last 12 months
MilestoneHighLow(series, metricNumber, isLowerBetter, t) ==
  LET recent == series[Len(series)]
      last12 == LastN(series, Last12)
      last12Values == Values(last12)
      per == <<[start |-> last12[1].month, end |-> recent.month]>>
      high == IF recent.value = SeqMax(last12Values) /\ Len(series) >= 3
              THEN <<Insight(generateInsightId("milestone", metricNumber, "new-high", t),
                             "milestone", "New High in Last 12 Months",
                             IF ~isLowerBetter THEN "info" ELSE "warning",
                             <<metricNumber>>, per, Evidence(last12), <<>>, <<>>, <<>>)>>
              ELSE <<>>
      low == IF recent.value = SeqMin(last12Values) /\ Len(series) >= 3
             THEN <<Insight(generateInsightId("milestone", metricNumber, "new-low", t),
                            "milestone", "New Low in Last 12 Months",
                            IF isLowerBetter THEN "info" ELSE "warning",
                            <<metricNumber>>, per, Evidence(last12), <<>>, <<>>, <<>>)>>
             ELSE <<>>
  IN high \o low

\* the backward scan for (let i = series.length - 1; i > 0; i--), with i the
\* 1-based index of `current`; returns [longest, dir] after the loop
RECURSIVE StreakScan(_, _, _, _, _, _)
StreakScan(vs, i, currentStreak, streakDirection, longestStreak, longestStreakDirection) ==
  IF i < 2 THEN [longest |-> longestStreak, dir |-> longestStreakDirection]
  ELSE LET current == vs[i]
           previous == vs[i - 1]
           step == IF current > previous
                   THEN (IF streakDirection = "up"
                         THEN [n |-> currentStreak + 1, d |-> "up"]
                         ELSE [n |-> 2, d |-> "up"])
                   ELSE IF current < previous
                   THEN (IF streakDirection = "down"
                         THEN [n |-> currentStreak + 1, d |-> "down"]
                         ELSE [n |-> 2, d |-> "down"])
                   ELSE [n |-> 1, d |-> "null"]
       IN IF step.n > longestStreak
          THEN StreakScan(vs, i - 1, step.n, step.d, step.n, step.d)
          ELSE StreakScan(vs, i - 1, step.n, step.d, longestStreak, longestStreakDirection)

\* mutant: the scan stopped after the four most recent points
LongestStreakMutant(vs) == StreakScan(LastN(vs, 4), Len(LastN(vs, 4)), 1, "null", 1, "null")

LongestStreak(vs) == StreakScan(vs, Len(vs), 1, "null", 1, "null")

\* the closing sentence of the summary of a streak insight
StreakClosing(isGoodStreak) ==
  IF isGoodStreak THEN "This is a positive achievement!" ELSE "This requires attention."

\* the streak insight pushed for the streak st
StreakInsight(series, metricNumber, st, isGoodStreak, t) ==
  [Insight(generateInsightId("milestone", metricNumber, "streak", t),
           "milestone",
           IF st.dir = "up" THEN "Improvement Streak" ELSE "Decline Streak",
           IF isGoodStreak THEN "info" ELSE "warning",
           <<metricNumber>>, <<>>,
           Evidence(LastN(series, st.longest)), <<>>, <<>>, <<<<st.longest, 1>>>>)
     EXCEPT !.summary = StreakClosing(isGoodStreak)]

\* mutant: a rising streak taken as good whatever the polarity
MilestoneStreakMutant(series, metricNumber, isLowerBetter, t) ==
  LET st == LongestStreak(Values(series))
  IN IF Len(series) >= 3 /\ st.longest >= MinStreak
     THEN <<StreakInsight(series, metricNumber, st, st.dir = "up", t)>>
     ELSE <<>>

MilestoneStreak(series, metricNumber, isLowerBetter, t) ==
  LET st == LongestStreak(Values(series))
      isGoodStreak == IF isLowerBetter THEN st.dir = "down" ELSE st.dir = "up"
  IN IF Len(series) >= 3 /\ st.longest >= MinStreak
     THEN <<StreakInsight(series, metricNumber, st, isGoodStreak, t)>>
     ELSE <<>>

\* value >= min && value <= max
InRange(v, lo, hi) == v >= lo /\ v <= hi

\* crossings into the green and the red zone
MilestoneThresholds(series, metricNumber, tolerance, t) ==
  LET recent == series[Len(series)]
      prev == series[Len(series) - 1]
      tol == tolerance[1]
      per == <<[start |-> prev.month, end |-> recent.month]>>
      green == IF /\ tol.greenOperator = "range"
                  /\ tol.greenMin # <<>> /\ tol.greenMax # <<>>
                  /\ ~InRange(prev.value, tol.greenMin[1], tol.greenMax[1])
                  /\ InRange(recent.value, tol.greenMin[1], tol.greenMax[1])
               THEN <<Insight(generateInsightId("milestone", metricNumber, "green-threshold", t),
                              "milestone", "Entered Green Zone", "info",
                              <<metricNumber>>, per, Evidence(<<prev, recent>>),
                              <<>>, <<>>, <<>>)>>
               ELSE <<>>
      red == IF /\ tol.redOperator = "range"
                /\ tol.redMin # <<>> /\ tol.redMax # <<>>
                /\ ~InRange(prev.value, tol.redMin[1], tol.redMax[1])
                /\ InRange(recent.value, tol.redMin[1], tol.redMax[1])
             THEN <<Insight(generateInsightId("milestone", metricNumber, "red-threshold", t),
                            "milestone", "Entered Red Zone", "critical",
                            <<metricNumber>>, per, Evidence(<<prev, recent>>),
                            <<>>, <<>>, <<>>)>>
             ELSE <<>>
  IN IF tolerance # <<>> /\ Len(series) >= 2 THEN green \o red ELSE <<>>

MilestoneForMetric(ps, metricNumber, tols, t) ==
  LET series == prepareMetricTimeSeries(ps, metricNumber)
      isLowerBetter == IsLowerBetter(tols, metricNumber)
  IN IF Len(series) < 2 THEN <<>>
     ELSE MilestoneHighLow(series, metricNumber, isLowerBetter, t)
          \o MilestoneStreak(series, metricNumber, isLowerBetter, t)
          \o MilestoneThresholds(series, metricNumber,
                                 FindTolerance(tols, metricNumber), t)

generateMilestoneInsights(ps, opts, tols, t) ==
  LET metricNumbers == MetricNumbersOf(opts)
  IN Flatten([i \in 1..Len(metricNumbers) |->
                MilestoneForMetric(ps, metricNumbers[i], tols, t)])

----------------------------------------------------------------------------
(* Comparison generator *)

CmpMomThreshold == 5
CmpMomWarning == 20
CmpYoyThreshold == 10
CmpYoyWarning == 25

\* sortedPeriods.find(p => same month and year as currentDate minus one year)
YearAgoPeriod(sortedPeriods, currentDate) ==
  LET yearAgo == SetFullYearBack(currentDate)
      hits == SelectSeq(sortedPeriods,
                LAMBDA p : p.startDate.m = yearAgo.m /\ p.startDate.y = yearAgo.y)
  IN IF hits = <<>> THEN <<>> ELSE <<Head(hits)>>

ComparisonYoy(sortedPeriods, currentPeriod, currentValue, metricNumber, t) ==
  LET yearAgoPeriod == YearAgoPeriod(sortedPeriods, currentPeriod.startDate)
      yearAgoMetric == FindMetric(yearAgoPeriod[1], metricNumber)
      yoyChange == PctChange(currentValue, yearAgoMetric[1].value[1])
  IN IF /\ yearAgoPeriod # <<>>
        /\ yearAgoMetric # <<>> /\ ~yearAgoMetric[1].isNA /\ yearAgoMetric[1].value # <<>>
        /\ AbsGt(yoyChange, CmpYoyThreshold)
     THEN <<Insight(generateInsightId("comparison", metricNumber, "yoy", t), "comparison",
                    "Year-over-Year Change",
                    IF AbsGt(yoyChange, CmpYoyWarning) THEN "warning" ELSE "info",
                    <<metricNumber>>, <<>>, <<>>, <<yoyChange>>, <<>>, <<>>)>>
     ELSE <<>>

ComparisonForMetric(sortedPeriods, metricNumber, t) ==
  LET currentPeriod == sortedPeriods[1]
      lastPeriod == sortedPeriods[2]
      currentMetric == FindMetric(currentPeriod, metricNumber)
      lastMetric == FindMetric(lastPeriod, metricNumber)
      change == PctChange(currentMetric[1].value[1], lastMetric[1].value[1])
      mom == IF AbsGt(change, CmpMomThreshold)
             THEN <<Insight(generateInsightId("comparison", metricNumber, "mom", t),
                            "comparison", "Month-over-Month Change",
                            IF AbsGt(change, CmpMomWarning) THEN "warning" ELSE "info",
                            <<metricNumber>>,
                            <<[start |-> MonthString(lastPeriod.startDate),
                               end |-> MonthString(currentPeriod.startDate)]>>,
                            <<>>, <<change>>, <<>>, <<>>)>>
             ELSE <<>>
  IN IF \/ currentMetric = <<>> \/ lastMetric = <<>>
        \/ currentMetric[1].isNA \/ lastMetric[1].isNA
        \/ currentMetric[1].value = <<>> \/ lastMetric[1].value = <<>>
     THEN <<>>
     ELSE mom \o ComparisonYoy(sortedPeriods, currentPeriod,
                               currentMetric[1].value[1], metricNumber, t)

generateComparisonInsights(ps, opts, t) ==
  LET metricNumbers == MetricNumbersOf(opts)
      sortedPeriods == SortPeriodsDesc(ps)
  IN IF Len(sortedPeriods) < 2 THEN <<>>
     ELSE Flatten([i \in 1..Len(metricNumbers) |->
                     ComparisonForMetric(sortedPeriods, metricNumbers[i], t)])

----------------------------------------------------------------------------
(* Forecast generator *)

MinForecastPoints == 3
MinLinearPoints == 6
LinearGap == 5

\* x - y for two finite fractions
FracSub(x, y) == <<x[1] * y[2] - y[1] * x[2], x[2] * y[2]>>

\* mutant: the mean of the whole series
MovingAverageMutant(values) == <<SumSeq(values), Len(values)>>

\* mean(values.slice(-3))
MovingAverage(values) == <<SumSeq(LastN(values, 3)), Len(LastN(values, 3))>>

\* slope * n + intercept of the least-squares line through (i - 1, values[i])
LinearForecast(values) ==
  LET n == Len(values)
      sumX == SumSeq([i \in 1..n |-> i - 1])
      sumY == SumSeq(values)
      sumXY == SumSeq([i \in 1..n |-> (i - 1) * values[i]])
      sumXX == SumSeq([i \in 1..n |-> (i - 1) * (i - 1)])
      a == n * sumXY - sumX * sumY        \* slope = a / b
      b == n * sumXX - sumX * sumX
      \* intercept = (sumY - slope * sumX) / n = (b * sumY - a * sumX) / (n * b)
  IN <<a * n * n + b * sumY - a * sumX, n * b>>

\* the body of the loop of generateForecastInsights after its guard
ForecastInsights(series, metricNumber, t) ==
  LET values == Values(series)
      forecast == MovingAverage(values)
      linearForecast == LinearForecast(values)
      ma == <<Insight(generateInsightId("forecast", metricNumber, "ma", t), "forecast",
                      "Next Month Forecast", "info", <<metricNumber>>, <<>>,
                      Evidence(LastN(series, 3)), <<>>, <<>>, <<forecast>>)>>
      lin == IF /\ Len(series) >= MinLinearPoints
                /\ AbsGt(FracSub(linearForecast, forecast), LinearGap)
             THEN <<Insight(generateInsightId("forecast", metricNumber, "linear", t),
                            "forecast", "Linear Trend Forecast", "info",
                            <<metricNumber>>, <<>>, Evidence(series),
                            <<>>, <<>>, <<linearForecast>>)>>
             ELSE <<>>
  IN ma \o lin

\* mutant: the forecast made from one point onwards
ForecastForMetricMutant(ps, metricNumber, t) ==
  LET series == prepareMetricTimeSeries(ps, metricNumber)
  IN IF Len(series) < 1 THEN <<>> ELSE ForecastInsights(series, metricNumber, t)

ForecastForMetric(ps, metricNumber, t) ==
  LET series == prepareMetricTimeSeries(ps, metricNumber)
  IN IF Len(series) < MinForecastPoints THEN <<>>
     ELSE ForecastInsights(series, metricNumber, t)

generateForecastInsights(ps, opts, t) ==
  LET metricNumbers == MetricNumbersOf(opts)
  IN Flatten([i \in 1..Len(metricNumbers) |-> ForecastForMetric(ps, metricNumbers[i], t)])

----------------------------------------------------------------------------
(* Correlation generator *)

MinCorrelationPoints == 12
\* |r| > 0.7, in hundredths
CorrelationThreshold == 70

\* pearsonCorrelation(x, y) as the triple <<a, X, Y>> standing for
\* a / sqrt(X * Y): with dx = n * (x[i] - meanX), dy likewise, a = sum dx * dy,
\* X = sum dx^2 and Y = sum dy^2; 0 when the lengths differ, below 2 values
\* and when the denominator is 0
pearsonCorrelation(x, y) ==
  LET n == Len(x)
      sx == SumSeq(x)
      sy == SumSeq(y)
      num == SumSeq([i \in 1..n |-> (n * x[i] - sx) * (n * y[i] - sy)])
      sumSqX == SumSeq([i \in 1..n |-> (n * x[i] - sx) * (n * x[i] - sx)])
      sumSqY == SumSeq([i \in 1..n |-> (n * y[i] - sy) * (n * y[i] - sy)])
  IN IF Len(x) # Len(y) \/ n < 2 THEN <<0, 1, 1>>
     ELSE IF sumSqX = 0 \/ sumSqY = 0 THEN <<0, 1, 1>>
     ELSE <<num, sumSqX, sumSqY>>

\* a / b > c / d for naturals a, c and positive b, d, by continued fractions
\* (no product is formed)
RECURSIVE QuotientGt(_, _, _, _)
QuotientGt(a, b, c, d) ==
  IF a \div b # c \div d THEN a \div b > c \div d
  ELSE IF a % b = 0 THEN FALSE
  ELSE IF c % d = 0 THEN TRUE
  ELSE QuotientGt(d, c % d, b, a % b)

\* mutant: Math.abs(r) > 0.5
RAbsGtMutant(r, c) == QuotientGt(r[1] * r[1], r[2], r[3], 4)

\* Math.abs(r) > c / 100: a^2 / X > (c / 100)^2 * Y
RAbsGt(r, c) == QuotientGt(r[1] * r[1], r[2], c * c * r[3], 100 * 100)

\* Object.keys(allSeries).map(Number): the requested metrics with at least
\* 12 points, each once, in ascending order
CorrelationKeys(ps, metricNumbers) ==
  LET kept == {m \in Range(metricNumbers) :
                 Len(prepareMetricTimeSeries(ps, m)) >= MinCorrelationPoints}
  IN AscendingSeq(kept)

\* alignedData[month][metricNumber]: the value of the last point of that
\* month in the series (<<>> when undefined)
Aligned(series, month) ==
  LET hits == SelectSeq(series, LAMBDA pt : pt.month = month)
  IN IF hits = <<>> THEN <<>> ELSE <<hits[Len(hits)].value>>

\* Object.keys(alignedData).filter(every metric has a value): the months in
\* the order of their first insertion.  A common month is a month of the first
\* key's series, and those are inserted first, in series order.
CommonMonths(ps, metricKeys) ==
  LET first == prepareMetricTimeSeries(ps, metricKeys[1])
      firstAt == SelectSeq([i \in 1..Len(first) |-> i],
                   LAMBDA i : \A j \in 1..(i - 1) : first[j].month # first[i].month)
      months == [k \in 1..Len(firstAt) |-> first[firstAt[k]].month]
  IN SelectSeq(months,
       LAMBDA mo : \A k \in 1..Len(metricKeys) :
                      Aligned(prepareMetricTimeSeries(ps, metricKeys[k]), mo) # <<>>)

CorrelationPair(ps, commonMonths, m1, m2, t) ==
  LET s1 == prepareMetricTimeSeries(ps, m1)
      s2 == prepareMetricTimeSeries(ps, m2)
      values1 == [k \in 1..Len(commonMonths) |-> Aligned(s1, commonMonths[k])[1]]
      values2 == [k \in 1..Len(commonMonths) |-> Aligned(s2, commonMonths[k])[1]]
      correlation == pearsonCorrelation(values1, values2)
      last6 == LastN(commonMonths, 6)
  IN IF RAbsGt(correlation, CorrelationThreshold)
     THEN <<Insight(generateInsightId("correlation", m1, "with-" \o ToString(m2), t),
                    "correlation",
                    IF correlation[1] > 0 THEN "Strong positive correlation"
                                          ELSE "Strong negative correlation",
                    "info", <<m1, m2>>, <<>>,
                    [k \in 1..Len(last6) |->
                       [month |-> last6[k], value |-> Aligned(s1, last6[k])[1]]],
                    <<>>, <<>>, <<correlation>>)>>
     ELSE <<>>

generateCorrelationInsights(ps, opts, t) ==
  LET metricNumbers == MetricNumbersOf(opts)
      metricKeys == CorrelationKeys(ps, metricNumbers)
      commonMonths == CommonMonths(ps, metricKeys)
      n == Len(metricKeys)
  IN IF Len(metricNumbers) < 2 THEN <<>>
     ELSE IF n < 2 THEN <<>>
     ELSE IF Len(commonMonths) < MinCorrelationPoints THEN <<>>
     ELSE Flatten([i \in 1..n |->
            Flatten([j \in 1..n |->
              IF j > i THEN CorrelationPair(ps, commonMonths, metricKeys[i], metricKeys[j], t)
              ELSE <<>>])])

----------------------------------------------------------------------------
(* Orchestrator *)

AllTypes == <<"trend", "anomaly", "milestone", "comparison", "forecast", "correlation">>

\* the cutoff of the time range: the most recent start date of all the
\* periods, moved back timeRange months by setMonth, then set to day 1
CutoffDate(ps, timeRange) ==
  LET sortedByDate == SortPeriodsDesc(ps)
      mostRecentDate == sortedByDate[1].startDate
  IN SetDateFirst(SetMonthBack(mostRecentDate, timeRange))

\* periods.filter(p => pDate >= cutoffDate) when a time range > 0 is given
\* and there is a period; all the periods otherwise
FilterByTimeRange(ps, opts) ==
  IF opts.timeRange # <<>> /\ opts.timeRange[1] # 0 /\ opts.timeRange[1] > 0 /\ Len(ps) > 0
  THEN SelectSeq(ps, LAMBDA p :
         GetTime(p.startDate) >= GetTime(CutoffDate(ps, opts.timeRange[1])))
  ELSE ps

\* mutant: the finalisation filter left out
OnlyFinalisedMutant(ps) == ps

\* filteredPeriods.filter(p => p.isFinalised)
OnlyFinalised(ps) == SelectSeq(ps, LAMBDA p : p.isFinalised)

FilterPeriods(ps, opts) == OnlyFinalised(FilterByTimeRange(ps, opts))

NoDataInsight ==
  [id |-> "no-data", type |-> "trend", title |-> "Insufficient Data",
   severity |-> "info", metricKeys |-> <<>>, period |-> <<>>, values |-> <<>>,
   changePct |-> <<>>, zScore |-> <<>>, reported |-> <<>>,
   summary |-> "", recommendations |-> <<>>, aiEnhanced |-> FALSE, notes |-> <<>>]

RequestedTypes(opts) == IF opts.types = <<>> THEN AllTypes ELSE opts.types[1]

Includes(list, x) == \E i \in 1..Len(list) : list[i] = x

\* mutant: every generator runs, whatever was requested
RunGeneratorsMutant(fp, tols, opts, t, ticks) ==
  generateTrendInsights(fp, opts, t)
    \o generateAnomalyInsights(fp, opts, tols, t, ticks)
    \o generateMilestoneInsights(fp, opts, tols, t + SumSeq(ticks))
    \o generateComparisonInsights(fp, opts, t + SumSeq(ticks))
    \o generateForecastInsights(fp, opts, t + SumSeq(ticks))
    \o generateCorrelationInsights(fp, opts, t + SumSeq(ticks))

\* the six generators, called at time t; Date.now() stays t but for the ticks
\* of the anomaly generator
RunGenerators(fp, tols, opts, t, ticks) ==
  LET requestedTypes == RequestedTypes(opts)
      t2 == IF Includes(requestedTypes, "anomaly") THEN t + SumSeq(ticks) ELSE t
      Part(type, out) == IF Includes(requestedTypes, type) THEN out ELSE <<>>
  IN Part("trend", generateTrendInsights(fp, opts, t))
     \o Part("anomaly", generateAnomalyInsights(fp, opts, tols, t, ticks))
     \o Part("milestone", generateMilestoneInsights(fp, opts, tols, t2))
     \o Part("comparison", generateComparisonInsights(fp, opts, t2))
     \o Part("forecast", generateForecastInsights(fp, opts, t2))
     \o Part("correlation", generateCorrelationInsights(fp, opts, t2))

\* mutant: the guard for an empty list of periods left out
generateInsightsMutant(ps, tols, opts, t, ticks) ==
  RunGenerators(FilterPeriods(ps, opts), tols, opts, t, ticks)

generateInsights(ps, tols, opts, t, ticks) ==
  LET fp == FilterPeriods(ps, opts)
  IN IF Len(fp) < 1 THEN <<NoDataInsight>>
     ELSE RunGenerators(fp, tols, opts, t, ticks)

----------------------------------------------------------------------------
(* AI enrichment in the insights request handler *)

MaxNarratives == 2

\* What the completion holds: nothing (no content, or the call failed), or
\* a text of one of three shapes: a JSON object, a text in which the
\* patterns for summary or recommendations match, a text in which nothing
\* matches.  summary and recommendations are what the shape yields, if any.
AiResponse(shape, summary, recommendations) ==
  [shape |-> shape, summary |-> summary, recommendations |-> recommendations]

AiOutcomes ==
  {<<>>,
   <<AiResponse("json", <<"AI summary">>, <<<<"AI advice">>>>)>>,
   <<AiResponse("json", <<>>, <<>>)>>,
   <<AiResponse("text", <<"AI summary">>, <<>>)>>,
   <<AiResponse("plain", <<>>, <<>>)>>}

\* parseAIEnhancement(insight, aiResponse)
parseAIEnhancement(insight, aiResponse) ==
  IF aiResponse.shape = "json"
  THEN [insight EXCEPT
          !.summary = IF aiResponse.summary # <<>> THEN aiResponse.summary[1] ELSE @,
          !.recommendations = IF aiResponse.recommendations # <<>>
                                /\ Len(aiResponse.recommendations[1]) > 0
                              THEN aiResponse.recommendations[1] ELSE @,
          !.aiEnhanced = TRUE]
  ELSE IF aiResponse.shape = "text"
  THEN [insight EXCEPT
          !.summary = IF aiResponse.summary # <<>> THEN aiResponse.summary[1] ELSE @,
          !.recommendations = IF aiResponse.recommendations # <<>>
                              THEN aiResponse.recommendations[1] ELSE @,
          !.aiEnhanced = TRUE]
  ELSE [insight EXCEPT !.aiEnhanced = TRUE, !.notes = Append(@, "AI Analysis")]

\* enhanceInsightWithAI(insight): null (<<>>) or the enhanced insight
enhanceInsightWithAI(insight, outcome) ==
  IF outcome = <<>> THEN <<>> ELSE <<parseAIEnhancement(insight, outcome[1])>>

IsSevere(insight) == insight.severity \in {"critical", "warning"}

\* [...criticalAndWarning.slice(0, 3), ...otherInsights.slice(0, 2)].slice(0, 5)
InsightsToEnhance(insights) ==
  FirstN(FirstN(SelectSeq(insights, IsSevere), 3)
           \o FirstN(SelectSeq(insights, LAMBDA x : ~IsSevere(x)), 2), 5)

\* insights.findIndex(i => i.id === id), 0 for -1
FindIndexById(insights, id) ==
  IF \E k \in 1..Len(insights) : insights[k].id = id
  THEN CHOOSE k \in 1..Len(insights) :
         insights[k].id = id /\ \A j \in 1..(k - 1) : insights[j].id # id
  ELSE 0

\* the replacement loop over enhancedInsights, from the i-th insight to
\* enhance on
RECURSIVE ReplaceEnhanced(_, _, _, _)
ReplaceEnhanced(insights, toEnhance, outcomes, i) ==
  IF i > Len(toEnhance) THEN insights
  ELSE LET enhanced == enhanceInsightWithAI(toEnhance[i], outcomes[i])
           originalIdx == FindIndexById(insights, toEnhance[i].id)
       IN ReplaceEnhanced(IF enhanced # <<>> /\ originalIdx # 0
                          THEN [insights EXCEPT ![originalIdx] = enhanced[1]]
                          ELSE insights,
                          toEnhance, outcomes, i + 1)

\* one narrative insight of generateNarrativeInsights
Narrative(t, idx) ==
  [NoDataInsight EXCEPT
     !.id = "narrative-" \o ToString(t) \o "-" \o ToString(idx),
     !.title = "narrative", !.summary = "AI narrative",
     !.recommendations = <<"AI advice">>, !.aiEnhanced = TRUE]

\* generateNarrativeInsights(insights), the completion holding n narratives
generateNarrativeInsights(insights, n, t) ==
  IF Len(insights) < 3 THEN <<>>
  ELSE IF SelectSeq(insights, IsSevere) = <<>> THEN <<>>
  ELSE [idx \in 1..n |-> Narrative(t, idx - 1)]

\* the list the handler responds with when AI enrichment is on
EnhancedInsights(insights, outcomes, n, t) ==
  LET insightsToEnhance == InsightsToEnhance(insights)
      aiEnhancedCount == Cardinality({i \in 1..Len(insightsToEnhance) : outcomes[i] # <<>>})
      replaced == ReplaceEnhanced(insights, insightsToEnhance, outcomes, 1)
  IN IF aiEnhancedCount > 0
     THEN replaced \o generateNarrativeInsights(replaced, n, t)
     ELSE replaced

----------------------------------------------------------------------------
(* Inputs: the arguments generateInsights is called with *)

Reading(m, v) ==
  [metricNumber |-> m, value |-> <<v>>, isNA |-> FALSE, hidden |-> FALSE, insight |-> ""]
NullReading(m) == [Reading(m, 0) EXCEPT !.value = <<>>]
\* a reading marked not applicable whose value was not cleared
NAReading(m, v) == [Reading(m, v) EXCEPT !.isNA = TRUE]

Period(id, startDate, isFinalised, metrics) ==
  [id |-> id, startDate |-> startDate, isFinalised |-> isFinalised, metrics |-> metrics]

Date(y, m, d) == [y |-> y, m |-> m, d |-> d]

\* createTolerance(metricNumber, isLowerBetter) of the README's tests, the
\* bounds rounded to integers
Tolerance(m, isLowerBetter) ==
  [metricNumber |-> m, isLowerBetter |-> isLowerBetter,
   greenOperator |-> "range", greenMin |-> <<90>>, greenMax |-> <<100>>,
   redOperator |-> "range", redMin |-> <<0>>, redMax |-> <<74>>]

Options(timeRange, metricNumbers, types) ==
  [timeRange |-> timeRange, metricNumbers |-> metricNumbers, types |-> types]

Input(ps, tols, opts) == [periods |-> ps, tolerances |-> tols, options |-> opts]

\* the first day of the k-th month from January 2024 (k = 1 is January)
Monthly(k) == MakeDate(2024 * 12 + (k - 1), 1)

\* createPeriod of the README's tests: finalised monthly periods holding the
\* values of a series for metric 1, oldest first
SeriesPeriods(vs) ==
  [i \in 1..Len(vs) |-> Period(i, Monthly(i), TRUE, <<Reading(1, vs[i])>>)]

(* Dated inputs: periods with free start dates and finalisation flags, each *)
(* holding its own value of metric 1, and a free time range.               *)
FreeDates == {Date(2024, 1, 1), Date(2024, 2, 15), Date(2024, 3, 31)}

\* a start date in the month one year before the latest of the free dates
YearAgoDate == Date(2023, 3, 15)

DatedPeriods ==
  LET shapes == (FreeDates \cup {YearAgoDate}) \X BOOLEAN
  IN {[i \in 1..Len(q) |-> Period(i, q[i][1], q[i][2], <<Reading(1, 70 + 10 * i)>>)]
        : q \in SeqsOf(shapes, 0, MaxPeriods)}

TimeRanges == {<<>>} \cup {<<n>> : n \in 0..MaxTimeRange}

DatedInputs ==
  {Input(ps, <<Tolerance(1, FALSE)>>, Options(tr, <<<<1>>>>, <<>>))
     : ps \in DatedPeriods, tr \in TimeRanges}

(* Reading inputs: finalised periods in any order of their dates, with every *)
(* kind of reading of metric 1.                                            *)
ReadingKinds == {"absent", "na", "null", "value"}

ReadingOfKind(kind, v) ==
  IF kind = "absent" THEN <<>>
  ELSE IF kind = "na" THEN <<NAReading(1, v)>>
  ELSE IF kind = "null" THEN <<NullReading(1)>>
  ELSE <<Reading(1, v)>>

ReadingPeriods ==
  LET shapes == FreeDates \X ReadingKinds
  IN {[i \in 1..Len(q) |-> Period(i, q[i][1], TRUE, ReadingOfKind(q[i][2], 70 + 10 * i))]
        : q \in SeqsOf(shapes, 0, MaxPeriods)}

ReadingInputs ==
  {Input(ps, <<Tolerance(1, FALSE)>>, Options(<<>>, <<<<1>>>>, <<>>))
     : ps \in ReadingPeriods}

(* Two-metric inputs: finalised monthly periods where metric 1 has any kind *)
(* of reading and metric 2 a value that rises and falls.                   *)
SecondValues == <<50, 60, 45>>

TwoMetricPeriods ==
  {[i \in 1..Len(q) |->
      Period(i, Monthly(i), TRUE,
             ReadingOfKind(q[i], 70 + 10 * i)
             \o <<Reading(2, SecondValues[(i % Len(SecondValues)) + 1])>>)]
     : q \in SeqsOf(ReadingKinds, 0, MaxPeriods)}

TwoMetricInputs ==
  {Input(ps, <<Tolerance(1, FALSE), Tolerance(2, TRUE)>>,
         Options(<<>>, <<<<1, 2>>>>, <<>>))
     : ps \in TwoMetricPeriods}

(* Comparison inputs: two finalised periods in either order of two start   *)
(* dates, or on the same date, each with any kind of reading of metric 1   *)
(* over the values of the README's trend test (80, 85) and values at the   *)
(* thresholds.                                                             *)
ComparisonValues == {0, 80, 85, 100, 105, 121}
ComparisonDates == {Date(2024, 1, 1), Date(2024, 2, 15)}

ComparisonReadings ==
  {<<>>, <<NullReading(1)>>}
    \cup {<<NAReading(1, v)>> : v \in ComparisonValues}
    \cup {<<Reading(1, v)>> : v \in ComparisonValues}

ComparisonInputs ==
  {Input(<<Period(1, d1, TRUE, r1), Period(2, d2, TRUE, r2)>>,
         <<Tolerance(1, FALSE)>>, Options(<<>>, <<<<1>>>>, <<>>))
     : d1 \in ComparisonDates, d2 \in ComparisonDates,
       r1 \in ComparisonReadings, r2 \in ComparisonReadings}

(* Year-over-year inputs: a period a year ago holding 100, the period      *)
(* before the current one with any kind of reading, and the current period *)
(* with a value, listed oldest first.                                      *)
YearAgoDates == {Date(2023, 2, 1), Date(2023, 3, 1)}
CurrentDates == {Date(2024, 2, 29), Date(2024, 3, 1)}
CurrentValues == {100, 110, 111, 125, 126}

YearOverYearInputs ==
  {Input(<<Period(1, ya, TRUE, ReadingOfKind(k1, 100)),
           Period(2, Date(2024, 1, 15), TRUE, ReadingOfKind(k2, 100)),
           Period(3, cd, TRUE, <<Reading(1, v)>>)>>,
         <<Tolerance(1, FALSE)>>, Options(<<>>, <<<<1>>>>, <<>>))
     : ya \in YearAgoDates, cd \in CurrentDates,
       k1 \in ReadingKinds, k2 \in ReadingKinds, v \in CurrentValues}

(* Twelve-month inputs: testCorrelation of the README (twelve monthly periods, *)
(* 80, 82, ... and 40, 41, ... for two metrics, here 2 and 3), where only the *)
(* first period has a reading of metric 1, of any kind.                    *)
TwelveMonths == 12

TwelveMonthPeriods(kind) ==
  [i \in 1..TwelveMonths |->
     Period(i, Monthly(i), TRUE,
            (IF i = 1 THEN ReadingOfKind(kind, 80) ELSE <<>>)
            \o <<Reading(2, 78 + 2 * i), Reading(3, 39 + i)>>)]

TwelveMonthInputs ==
  {Input(TwelveMonthPeriods(kind), <<>>, Options(<<>>, <<<<1, 2, 3>>>>, <<>>))
     : kind \in ReadingKinds}

(* Correlation inputs: metric 2 rises by 2 a month over twelve months;     *)
(* metric 3, and metric 4 when present, follow one of several shapes.  In   *)
(* variant "gap" metric 3 lacks one reading; in variant "shifted" there is  *)
(* a thirteenth month and metric 3 runs over months 2..13, the others over  *)
(* months 1..12.                                                           *)
Rising == [i \in 1..12 |-> 39 + i]
Falling == [i \in 1..12 |-> 52 - i]
Flat == [i \in 1..12 |-> 50]
\* r = 0.710 and r = 0.697 against a rising line
JustAbove == <<0, 0, 0, 0, 1, 1, 1, 0, 1, 1, 1, 1>>
JustBelow == <<0, 0, 0, 0, 0, 0, 0, 0, 1, 0, 1, 1>>
Mirror(sh) == [i \in 1..Len(sh) |-> 1 - sh[i]]

Shapes == {Rising, Falling, Flat, JustAbove, JustBelow, Mirror(JustAbove), Mirror(JustBelow)}
Variants == {"full", "gap", "shifted"}

CorrelationPeriods(sh3, sh4, variant) ==
  LET n == IF variant = "shifted" THEN TwelveMonths + 1 ELSE TwelveMonths
      off == IF variant = "shifted" THEN 1 ELSE 0
  IN [i \in 1..n |->
        Period(i, Monthly(i), TRUE,
               (IF i <= TwelveMonths THEN <<Reading(2, 78 + 2 * i)>> ELSE <<>>)
               \o (IF i - off \in 1..TwelveMonths /\ ~(variant = "gap" /\ i = 5)
                   THEN <<Reading(3, sh3[i - off])>> ELSE <<>>)
               \o (IF i <= TwelveMonths /\ sh4 # <<>>
                   THEN <<Reading(4, sh4[i])>> ELSE <<>>))]

CorrelationInput(sh3, sh4, variant, mns) ==
  Input(CorrelationPeriods(sh3, sh4, variant), <<>>,
        Options(<<>>, <<mns>>, <<<<"correlation">>>>))

\* two metrics in the periods and in the request; a third one in both; a
\* third one in the periods alone, and a metric requested twice
CorrelationInputs ==
  {CorrelationInput(sh3, <<>>, variant, <<3, 2>>) : sh3 \in Shapes, variant \in Variants}
    \cup {CorrelationInput(sh3, sh4, variant, <<2, 3, 4>>)
            : sh3 \in Shapes, sh4 \in {Rising, Mirror(JustAbove)}, variant \in Variants}
    \cup {CorrelationInput(Rising, sh4, "shifted", <<2, 4, 2>>) : sh4 \in {Rising, JustBelow}}

(* Series inputs: the monthly periods of a series of values of metric 1.   *)
ShortValues == {-10, -5, 0, 5, 100, 105, 106, 120, 121}
\* a long series is a history over two levels followed by a latest value
HistoryValues == {0, 100}
LatestValues == {-100, 0, 5, 100, 1000}

\* a tolerance record of either polarity, or none
BothPolarities == {<<Tolerance(1, FALSE)>>, <<Tolerance(1, TRUE)>>}
Polarities == {<<>>} \cup BothPolarities

\* a short series is at most one value, or two free values after a few
\* earlier ones
EarlierValues == {-20, 100}

ShortSeries ==
  SeqsOf(ShortValues, 0, 1)
    \cup {e \o <<p, v>> : e \in SeqsOf(EarlierValues, 0, MaxShortLen - 2),
                          p \in ShortValues, v \in ShortValues}

ShortSeriesInputs ==
  {Input(SeriesPeriods(vs), <<Tolerance(1, FALSE)>>, Options(<<>>, <<<<1>>>>, <<>>))
     : vs \in ShortSeries}

LongSeries ==
  {Append(h, v) : h \in SeqsOf(HistoryValues, MaxShortLen, MaxLongLen - 1),
                  v \in LatestValues}

LongSeriesInputs ==
  {Input(SeriesPeriods(vs), tols, Options(<<>>, <<<<1>>>>, <<>>))
     : vs \in LongSeries, tols \in BothPolarities}

\* testAnomalyDetection of the README
ScenarioA == <<80, 82, 81, 83, 79, 120>>

ScenarioInputs ==
  {Input(SeriesPeriods(ScenarioA), tols, Options(<<>>, <<<<1>>>>, <<<<"anomaly">>>>))
     : tols \in Polarities}

SeriesInputs == ShortSeriesInputs \cup LongSeriesInputs \cup ScenarioInputs

(* Enrichment inputs: series whose insights number from one to more than    *)
(* five, of either severity.                                               *)
EnhanceSeries == {<<80>>, <<80, 85>>, <<80, 100>>, ScenarioA, <<50, 60, 75, 95, 120, 160>>}

EnhanceInputs ==
  {Input(SeriesPeriods(vs), <<Tolerance(1, TRUE)>>, Options(<<>>, <<<<1>>>>, <<>>))
     : vs \in EnhanceSeries}
    \cup {Input(<<Period(1, Monthly(1), FALSE, <<Reading(1, 80)>>)>>, <<>>,
                Options(<<>>, <<<<1>>>>, <<>>))}

(* Database inputs: a finalised and a draft period in either order, one     *)
(* reading each.                                                           *)
ApiInputs ==
  {Input(<<Period(1, Monthly(1), f, <<Reading(1, 80)>>),
           Period(2, Monthly(2), ~f, <<Reading(1, 85)>>)>>,
         <<>>, Options(<<>>, <<>>, <<>>))
     : f \in BOOLEAN}

(* Type inputs: any list of requested types, over twelve months of two      *)
(* metrics, over the series of the README's anomaly test, and over a       *)
(* period that is not finalised.                                           *)
TypeList(S) == SelectSeq(AllTypes, LAMBDA x : x \in S)

TypeLists == {TypeList(S) : S \in SUBSET Range(AllTypes)} \cup {<<"correlation", "trend">>}

\* a shape well above 0 ending in a jump
Spike == [i \in 1..12 |-> 10 + JustAbove[i] + (IF i = 12 THEN 2 ELSE 0)]

TypePeriods ==
  {CorrelationPeriods(Spike, <<>>, "full"), SeriesPeriods(ScenarioA),
   <<Period(1, Monthly(1), FALSE, <<Reading(1, 80)>>)>>}

TypeInputs ==
  {Input(ps, <<Tolerance(3, TRUE)>>, Options(<<>>, <<mns>>, types))
     : ps \in TypePeriods, mns \in {<<1>>, <<1, 1>>, <<2, 3>>},
       types \in {<<>>} \cup {<<tl>> : tl \in TypeLists}}

(* Streak inputs: series that start at 50 and rise, fall or stay by steps  *)
(* of 5, for either polarity; only the milestone generator is requested.   *)
StreakSteps == {-5, 0, 5}

RECURSIVE Walk(_, _)
\* the series that starts at v and then takes the steps of st
Walk(v, st) == IF st = <<>> THEN <<v>> ELSE <<v>> \o Walk(v + Head(st), Tail(st))

StreakSeries == {Walk(50, st) : st \in SeqsOf(StreakSteps, MinStreak - 1, MaxLongLen - 1)}

StreakInputs ==
  {Input(SeriesPeriods(vs), tols, Options(<<>>, <<<<1>>>>, <<<<"milestone">>>>))
     : vs \in StreakSeries, tols \in Polarities}

----------------------------------------------------------------------------
(* The state machine: one call of generateInsights *)

\* the ticks of one run of the anomaly generator
Ticks(opts) == [1..Len(MetricNumbersOf(opts)) -> 0..MaxTick]

\* a cache that no connection to Redis was made for
NoCache == [enabled |-> FALSE, store |-> {}]

InitWith(inputs) ==
  /\ \E in \in inputs :
        /\ periods = in.periods
        /\ tolerances = in.tolerances
        /\ options = in.options
  /\ now = 0
  /\ pc = "idle"
  /\ filteredPeriods = <<>>
  /\ result = <<>>
  /\ status = 0
  /\ env = [ADMIN_SECRET |-> <<>>]
  /\ requests = <<>>
  /\ cache = NoCache
  /\ logs = <<>>
  /\ logged = <<>>

\* generateInsights(periods, tolerances, options); filteredPeriods keeps the
\* list the generators were handed
Generate ==
  /\ pc = "idle"
  /\ \E ticks \in Ticks(options) :
        /\ result' = generateInsights(periods, tolerances, options, now, ticks)
        /\ now' = now + SumSeq(ticks)
  /\ filteredPeriods' = FilterPeriods(periods, options)
  /\ pc' = "done"
  /\ UNCHANGED <<periods, tolerances, options, status, serverVars>>

Next == Generate

\* a second call of generateInsights with the same arguments, some
\* milliseconds after the first one returned
GenerateAgain ==
  /\ pc = "done"
  /\ \E dt \in 0..MaxTick, ticks \in Ticks(options) :
        /\ result' = generateInsights(periods, tolerances, options, now + dt, ticks)
        /\ now' = now + dt + SumSeq(ticks)
  /\ filteredPeriods' = FilterPeriods(periods, options)
  /\ pc' = "again"
  /\ UNCHANGED <<periods, tolerances, options, status, serverVars>>

NextAgain == Generate \/ GenerateAgain

\* the rest of the insights request handler: enrichment of the generated
\* list if the request asks for it and an API key is configured
Enhance ==
  /\ pc = "done"
  /\ \E ai \in BOOLEAN, n \in 0..MaxNarratives,
        outcomes \in [1..Len(InsightsToEnhance(result)) -> AiOutcomes] :
        result' = IF ai THEN EnhancedInsights(result, outcomes, n, now) ELSE result
  /\ pc' = "responded"
  /\ status' = 200
  /\ UNCHANGED <<periods, tolerances, options, now, filteredPeriods, serverVars>>

NextEnhance == Generate \/ Enhance

\* the fields of the body of a metric update, each one absent (<<>>) or
\* given; a given value is a number or null (<<>>)
Bodies ==
  [value : {<<>>, <<<<>>>>, <<<<80>>>>, <<<<85>>>>},
   isNA : {<<>>, <<TRUE>>, <<FALSE>>},
   hidden : {<<>>, <<TRUE>>, <<FALSE>>},
   insight : {<<>>, <<"comment">>}]

\* the data of prisma.metric.update: a field that is undefined is left alone
UpdateMetric(metric, body) ==
  [metric EXCEPT
     !.value = IF body.value # <<>> THEN body.value[1] ELSE @,
     !.isNA = IF body.isNA # <<>> THEN body.isNA[1] ELSE @,
     !.hidden = IF body.hidden # <<>> THEN body.hidden[1] ELSE @,
     !.insight = IF body.insight # <<>> THEN body.insight[1] ELSE @]

\* PATCH of a metric: the j-th reading of the i-th period, or an id that no
\* metric has
PatchMetric ==
  \/ /\ \E i \in 1..Len(periods) :
           \E j \in 1..Len(periods[i].metrics), body \in Bodies :
             periods' = [periods EXCEPT ![i].metrics[j] = UpdateMetric(@, body)]
     /\ status' = 200
     /\ UNCHANGED <<tolerances, options, now, pc, filteredPeriods, result, serverVars>>
  \/ /\ status' = 404
     /\ UNCHANGED <<periods, tolerances, options, now, pc, filteredPeriods, result, serverVars>>

\* POST finalise of the i-th period, or of an id that no period has
FinalisePeriod ==
  \/ \E i \in 1..Len(periods) :
       /\ IF periods[i].isFinalised
          THEN status' = 400 /\ UNCHANGED periods
          ELSE status' = 200 /\ periods' = [periods EXCEPT ![i].isFinalised = TRUE]
       /\ UNCHANGED <<tolerances, options, now, pc, filteredPeriods, result, serverVars>>
  \/ /\ status' = 404
     /\ UNCHANGED <<periods, tolerances, options, now, pc, filteredPeriods, result, serverVars>>

NextApi == PatchMetric \/ FinalisePeriod

Init == InitWith(DatedInputs)
Spec == Init /\ [][Next]_vars

InitReadings ==
  InitWith(ReadingInputs \cup TwoMetricInputs \cup ComparisonInputs
             \cup YearOverYearInputs \cup TwelveMonthInputs)
SpecReadings == InitReadings /\ [][Next]_vars

InitSeries == InitWith(SeriesInputs)
SpecSeries == InitSeries /\ [][Next]_vars

InitStreaks == InitWith(StreakInputs)
SpecStreaks == InitStreaks /\ [][Next]_vars

InitTypes == InitWith(TypeInputs)
SpecTypes == InitTypes /\ [][Next]_vars

InitEnhance == InitWith(EnhanceInputs)
SpecEnhance == InitEnhance /\ [][NextEnhance]_vars

InitApi == InitWith(ApiInputs)
SpecApi == InitApi /\ [][NextApi]_vars

SpecAgain == InitSeries /\ [][NextAgain]_vars

InitCorrelation == InitWith(CorrelationInputs)
SpecCorrelation == InitCorrelation /\ [][Next]_vars

----------------------------------------------------------------------------
(* Properties *)

Done == pc = "done"

\* the value of the usable reading of metric m of period p
ValueOf(p, m) == FindMetric(p, m)[1].value[1]

\* options.timeRange is given and > 0
HasTimeRange == options.timeRange # <<>> /\ options.timeRange[1] > 0

MomTitles == {"Improvement This Month", "Decline This Month"}
ComparisonTitles == {"Month-over-Month Change", "Year-over-Year Change"}

\* point pt of an evidence bundle is the reading of metric m of period p
PointOf(pt, p, m) ==
  /\ Usable(FindMetric(p, m))
  /\ pt.month = MonthString(p.startDate)
  /\ pt.value = ValueOf(p, m)

(* C1: generateInsights only analyses finalised periods: every period handed *)
(* to the generators is finalised, every evidence point of a returned      *)
(* insight is the reading of a finalised period, and every month-over-month *)
(* and year-over-year percentage compares the readings of two finalised    *)
(* periods.                                                                *)
C1_OnlyFinalisedAnalysed ==
  Done =>
    /\ \A i \in 1..Len(filteredPeriods) : filteredPeriods[i].isFinalised
    /\ \A k \in 1..Len(result) :
         /\ \A j \in 1..Len(result[k].values) :
              \E i \in 1..Len(periods) :
                 periods[i].isFinalised /\ PointOf(result[k].values[j], periods[i], 1)
         /\ result[k].title \in MomTitles \cup ComparisonTitles =>
              \E i, j \in 1..Len(periods) :
                 /\ periods[i].isFinalised /\ periods[j].isFinalised
                 /\ SameNumber(result[k].changePct[1],
                               PctChange(ValueOf(periods[i], 1), ValueOf(periods[j], 1)))

\* a draft period lies among finalised ones, and insights with evidence and
\* with a comparison were returned
C1_Witness ==
  /\ Done
  /\ \E i \in 1..Len(periods) : ~periods[i].isFinalised
  /\ Len(filteredPeriods) >= 2
  /\ \E k \in 1..Len(result) : result[k].values # <<>>
  /\ \E k \in 1..Len(result) : result[k].title \in ComparisonTitles

\* the most recent start date among all the periods supplied
MostRecentStart(ps) ==
  CHOOSE d \in {ps[i].startDate : i \in 1..Len(ps)} :
    \A i \in 1..Len(ps) : GetTime(ps[i].startDate) <= GetTime(d)

\* day 1 of the month n months before the month of the most recent start date
ClaimedCutoff(ps, n) == MakeDate(MonthIndex(MostRecentStart(ps)) - n, 1)

(* C2: with a time range N > 0 the periods handed to the generators are    *)
(* exactly the finalised periods that start on or after day 1 of the month *)
(* N months before the month of the most recent start date of all the      *)
(* periods; without a time range, exactly the finalised periods.           *)
C2_CutoffFirstOfMonth ==
  Done =>
    filteredPeriods =
      SelectSeq(periods, LAMBDA p :
        /\ p.isFinalised
        /\ HasTimeRange =>
             GetTime(p.startDate) >= GetTime(ClaimedCutoff(periods, options.timeRange[1])))

(* C3: when no finalised period remains after the filters, the result is   *)
(* exactly the one "Insufficient Data" insight of severity info, and no    *)
(* generator has contributed.                                              *)
C3_InsufficientData ==
  (Done /\ filteredPeriods = <<>>) =>
    /\ Len(result) = 1
    /\ result[1].id = "no-data"
    /\ result[1].title = "Insufficient Data"
    /\ result[1].severity = "info"
    /\ result[1].type = "trend"
    /\ result[1].metricKeys = <<>> /\ result[1].values = <<>>

\* a finalised period was supplied, the time range dropped it, and the
\* placeholder was returned
C3_Witness ==
  /\ Done
  /\ \E i \in 1..Len(periods) : periods[i].isFinalised
  /\ filteredPeriods = <<>>
  /\ result = <<NoDataInsight>>

\* period p has a reading of metric m that is not marked not-applicable and
\* whose value is not null
HasUsableReading(p, m) ==
  \E r \in Range(p.metrics) : r.metricNumber = m /\ ~r.isNA /\ r.value # <<>>

\* the period of the input list with the given id
PeriodWithId(id) == CHOOSE p \in Range(periods) : p.id = id

\* the metric numbers the options request
Requested == Range(MetricNumbersOf(options))

\* the state predicate of C4, for metric 1 and metric 2 of the input periods
C4_Points ==
  \A m \in {1, 2} :
    LET series == prepareMetricTimeSeries(periods, m)
    IN /\ Len(series) = Cardinality({i \in 1..Len(periods) : HasUsableReading(periods[i], m)})
       /\ \A i \in 1..Len(periods) :
            HasUsableReading(periods[i], m) <=>
              \E j \in 1..Len(series) : series[j].periodId = periods[i].id
       /\ \A j \in 1..Len(series) :
            /\ series[j].month = MonthString(PeriodWithId(series[j].periodId).startDate)
            /\ \E r \in Range(PeriodWithId(series[j].periodId).metrics) :
                 r.metricNumber = m /\ r.value = <<series[j].value>>
       /\ \A j, k \in 1..Len(series) :
            j < k => GetTime(PeriodWithId(series[j].periodId).startDate)
                       <= GetTime(PeriodWithId(series[k].periodId).startDate)

(* C4: prepareMetricTimeSeries(periods, m) has exactly one point per period *)
(* holding a reading of metric m that is not marked not-applicable and has *)
(* a value, and no other point; the points are in non-decreasing order of  *)
(* the start dates of their periods whatever the order of the list; each   *)
(* carries the start month as YYYY-MM, the value and the id of its period; *)
(* and the list of periods is never changed.                               *)
C4_TimeSeries == [](C4_Points) /\ [][periods' = periods]_vars

\* three periods listed newest first, one of them marked not-applicable with
\* a value, the other two making the two points of the series
C4_Witness ==
  /\ Done
  /\ Len(periods) = 3
  /\ GetTime(periods[1].startDate) > GetTime(periods[2].startDate)
  /\ GetTime(periods[2].startDate) > GetTime(periods[3].startDate)
  /\ \E i \in 1..3 : \E r \in Range(periods[i].metrics) : r.isNA /\ r.value # <<>>
  /\ Len(prepareMetricTimeSeries(periods, 1)) = 2
  /\ prepareMetricTimeSeries(periods, 1)[1].month = "2024-01"

(* C7: a requested metric whose series over the filtered periods has at    *)
(* most one point is in the metricKeys of no returned insight, whichever   *)
(* insight types ran.                                                      *)
C7_TooFewPoints ==
  Done =>
    \A m \in Requested :
      Len(prepareMetricTimeSeries(filteredPeriods, m)) <= 1 =>
        \A k \in 1..Len(result) : m \notin Range(result[k].metricKeys)

\* a metric with exactly one point among periods for which all six
\* generators ran and other metrics got insights of several types
C7_Witness ==
  /\ Done
  /\ \E m \in Requested : Len(prepareMetricTimeSeries(filteredPeriods, m)) = 1
  /\ Len(filteredPeriods) >= 3
  /\ {"trend", "milestone", "forecast", "correlation"}
       \subseteq {result[k].type : k \in 1..Len(result)}

\* the values of metric 1 over the input periods, oldest first
Series1 == Values(prepareMetricTimeSeries(periods, 1))

\* the latest value of a series and the ones before it
Latest(s) == s[Len(s)]
Prior(s) == SubSeq(s, 1, Len(s) - 1)

\* the polarity of metric 1: the flag of its tolerance record, false without one
LowerBetter1 ==
  \E i \in 1..Len(tolerances) :
     tolerances[i].metricNumber = 1 /\ tolerances[i].isLowerBetter

\* the generator of the given insight type was requested
Ran(type) == Includes(RequestedTypes(options), type)

\* the insights of the result by kind
ZScoreTitles == {"Unusual High Value Detected", "Unusual Low Value Detected"}
ZScoreInsights == {k \in 1..Len(result) : result[k].title \in ZScoreTitles}
IqrInsights == {k \in 1..Len(result) : result[k].title = "Outlier Detected"}
MomInsights == {k \in 1..Len(result) : result[k].title \in MomTitles}

\* Len(h) * (v - mean(h)): the sign of the deviation of v from the mean of h
Deviation(h, v) == Len(h) * v - SumSeq(h)

\* Len(h)^2 times the population variance of h
Spread(h) ==
  Len(h) * SumSeq([i \in 1..Len(h) |-> h[i] * h[i]]) - SumSeq(h) * SumSeq(h)

\* v lies more than 2 population standard deviations (not 0) from the mean of h
BeyondTwoSigma(h, v) ==
  LET dev == Deviation(h, v)
      spread == Spread(h)
  IN spread > 0 /\ dev * dev > 4 * spread

(* C5: the anomaly generator emits no anomaly insight, z-score or IQR, when *)
(* the latest value is at or below the mean of the prior points and lower  *)
(* is better, nor when it is at or above that mean and higher is better    *)
(* (the default without a tolerance record).                               *)
C5_NeverBetterThanMean ==
  (Done /\ ZScoreInsights \cup IqrInsights # {}) =>
    LET dev == Deviation(Prior(Series1), Latest(Series1))
    IN IF LowerBetter1 THEN dev > 0 ELSE dev < 0

(* What the two paths do keep to: a z-score insight is emitted only when   *)
(* the latest value is strictly above the mean of the prior points (lower  *)
(* is better) or strictly below it (otherwise); an IQR insight only when   *)
(* the latest value is strictly above their third quartile (lower is       *)
(* better) or strictly below their first quartile (otherwise).             *)
AnomalyOnBadSideOfMeanOrQuartile ==
  (Done /\ ZScoreInsights \cup IqrInsights # {}) =>
    LET s == Series1
        dev == Deviation(Prior(s), Latest(s))
        q == quartiles(Prior(s))
    IN /\ ZScoreInsights # {} => IF LowerBetter1 THEN dev > 0 ELSE dev < 0
       /\ IqrInsights # {} => IF LowerBetter1 THEN 2 * Latest(s) > q.q3
                                              ELSE 2 * Latest(s) < q.q1

\* lower is better, the latest value is below the mean of the prior points
\* and above their third quartile, and the IQR path reported it
BelowMeanFlaggedByIqr ==
  /\ Done /\ LowerBetter1 /\ IqrInsights # {}
  /\ Deviation(Prior(Series1), Latest(Series1)) < 0

\* a low latest value of a lower-is-better metric, far beyond both the
\* z-score threshold and the lower IQR bound, and nothing reported
LowOutlierSuppressed ==
  /\ Done /\ LowerBetter1 /\ Ran("anomaly")
  /\ ZScoreInsights \cup IqrInsights = {}
  /\ Len(Series1) >= MinZScorePoints
  /\ LET s == Series1
     IN /\ Deviation(Prior(s), Latest(s)) < 0
        /\ BeyondTwoSigma(Prior(s), Latest(s))
        /\ BelowLowerBound(Latest(s), quartiles(Prior(s)))

\* the input is the series of testAnomalyDetection, anomaly insights only
IsScenarioA ==
  /\ options.types = <<<<"anomaly">>>>
  /\ periods = SeriesPeriods(ScenarioA)

C6_WitnessFlagged ==
  /\ Done /\ IsScenarioA
  /\ LowerBetter1
  /\ ZScoreInsights # {}

(* C8: in one run, a metric with a z-score insight never also gets an IQR  *)
(* insight.                                                                *)
C8_NoDoubleReport ==
  Done =>
    \A k \in ZScoreInsights : \A j \in IqrInsights :
       result[k].metricKeys # result[j].metricKeys

\* the change of the two most recent points is beyond c percent: with p the
\* previous and v the latest value, |(v - p) / p * 100| > c, read as the
\* IEEE arithmetic of the code reads it when p = 0
ChangeBeyond(v, p, c) ==
  IF p = 0 THEN v # 0 ELSE 100 * Abs(v - p) > c * Abs(p)

\* the fraction x is (v - p) / p * 100, infinite when p = 0
IsChange(x, v, p) ==
  IF p = 0 THEN x[2] = 0 /\ x[1] = Sgn(v)
  ELSE x[2] > 0 /\ x[1] * p = 100 * (v - p) * x[2]

(* C9: for a requested metric with at least 2 usable points, the trend     *)
(* generator, when it runs, emits one month-over-month insight if          *)
(* |change| > 5 and none otherwise, where change = (latest - previous) /   *)
(* previous * 100 over the two most recent points; its severity is warning *)
(* if |change| > 20 and info otherwise, and its changePct is change.       *)
C9_MonthOverMonth ==
  (Done /\ Ran("trend")) =>
    LET s == Series1
        v == s[Len(s)]
        p == s[Len(s) - 1]
    IN Len(s) >= 2 =>
         /\ Cardinality(MomInsights) = IF ChangeBeyond(v, p, 5) THEN 1 ELSE 0
         /\ \A k \in MomInsights :
              /\ result[k].type = "trend" /\ result[k].metricKeys = <<1>>
              /\ result[k].severity = IF ChangeBeyond(v, p, 20) THEN "warning" ELSE "info"
              /\ IsChange(result[k].changePct[1], v, p)

\* 100 then 106: a change of 6 percent, reported with severity info
C9_Witness ==
  /\ Done /\ Len(periods) = 2 /\ Series1 = <<100, 106>>
  /\ \E k \in MomInsights :
        result[k].severity = "info" /\ result[k].changePct = <<<<600, 100>>>>

\* 100 then 5: a change of -95 percent, reported with severity warning
C9_WitnessDecline ==
  /\ Done /\ Len(periods) = 2 /\ Series1 = <<100, 5>>
  /\ \E k \in MomInsights :
        result[k].severity = "warning" /\ result[k].title = "Decline This Month"

(* C10: for a strictly increasing series, every month-over-month trend     *)
(* insight has a positive changePct and the title of an improvement.       *)
C10_IncreasingIsImprovement ==
  (Done /\ MomInsights # {}) =>
    LET s == Series1
    IN (\A i \in 1..(Len(s) - 1) : s[i] < s[i + 1]) =>
         \A k \in MomInsights :
            /\ IsPos(result[k].changePct[1])
            /\ result[k].title = "Improvement This Month"

\* the fraction x is a finite number: neither infinite nor NaN
IsFinite(x) == x[2] # 0

(* C11: no returned insight carries an infinite or undefined changePct: a  *)
(* previous value or an average equal to 0 never shows in a percentage of  *)
(* the trend and comparison generators.                                    *)
C11_NoDivisionByZero ==
  Done =>
    \A k \in 1..Len(result) :
       result[k].changePct # <<>> => IsFinite(result[k].changePct[1])

\* the streak insights of the result
StreakTitles == {"Improvement Streak", "Decline Streak"}
StreakInsights == {k \in 1..Len(result) : result[k].title \in StreakTitles}

\* the n points of s from index i on rise strictly (up) or fall strictly
IsRun(s, i, n, up) ==
  /\ i >= 1 /\ i + n - 1 <= Len(s)
  /\ \A j \in i..(i + n - 2) : IF up THEN s[j] < s[j + 1] ELSE s[j] > s[j + 1]

\* some run of n points of the given direction is in s
HasRun(s, n, up) == \E i \in 1..Len(s) : IsRun(s, i, n, up)

\* the length of the longest run of s in either direction
MaxRun(s) ==
  CHOOSE n \in 1..Len(s) :
    /\ HasRun(s, n, TRUE) \/ HasRun(s, n, FALSE)
    /\ \A m \in (n + 1)..Len(s) : ~HasRun(s, m, TRUE) /\ ~HasRun(s, m, FALSE)

(* C12: a streak insight is emitted for a series whose longest run of      *)
(* strictly rising or strictly falling points has at least 4 points, and   *)
(* reports its length; its title names a direction of such a run; a rising *)
(* streak is good iff isLowerBetter is false and a falling one iff it is   *)
(* true; a good streak has severity info and the closing sentence of a     *)
(* positive achievement, any other severity warning and the sentence that  *)
(* it requires attention.  7 strictly falling points with isLowerBetter =  *)
(* true give one streak insight of 7 months with severity info.            *)
C12_StreakPolarity ==
  (Done /\ Ran("milestone") /\ Len(periods) >= 3) =>
    LET s == Series1
        longest == MaxRun(s)
    IN /\ Cardinality(StreakInsights) = IF longest >= 4 THEN 1 ELSE 0
       /\ \A k \in StreakInsights :
            LET up == result[k].title = "Improvement Streak"
                good == IF LowerBetter1 THEN ~up ELSE up
            IN /\ result[k].reported = <<<<longest, 1>>>>
               /\ HasRun(s, longest, up)
               /\ result[k].severity = IF good THEN "info" ELSE "warning"
               /\ result[k].summary = IF good THEN "This is a positive achievement!"
                                              ELSE "This requires attention."
       /\ (Len(s) = 7 /\ IsRun(s, 1, 7, FALSE) /\ LowerBetter1) =>
            \E k \in StreakInsights :
               /\ result[k].reported = <<<<7, 1>>>>
               /\ result[k].severity = "info"
               /\ result[k].title = "Decline Streak"

\* 7 strictly falling points, lower is better: the streak insight of 7
\* months with severity info
C12_Witness ==
  /\ Done /\ LowerBetter1
  /\ Series1 = <<50, 45, 40, 35, 30, 25, 20>>
  /\ \E k \in StreakInsights :
        /\ result[k].reported = <<<<7, 1>>>>
        /\ result[k].severity = "info"
        /\ result[k].summary = "This is a positive achievement!"

\* the index in ps of the period the descending sort puts at position n:
\* later start dates first, equal ones in the order of the list
NthNewest(ps, n) ==
  CHOOSE i \in 1..Len(ps) :
    Cardinality({j \in 1..Len(ps) :
                   \/ GetTime(ps[j].startDate) > GetTime(ps[i].startDate)
                   \/ (GetTime(ps[j].startDate) = GetTime(ps[i].startDate) /\ j < i)})
      = n - 1

\* the comparison insights of metric m with the given title
ComparisonInsights(m, title) ==
  {k \in 1..Len(result) :
     /\ result[k].type = "comparison" /\ result[k].title = title
     /\ result[k].metricKeys = <<m>>}

\* the input is two periods holding 80 then 85 for metric 1
IsScenarioB ==
  /\ Len(periods) = 2
  /\ periods[1].metrics = <<Reading(1, 80)>> /\ periods[2].metrics = <<Reading(1, 85)>>
  /\ GetTime(periods[1].startDate) < GetTime(periods[2].startDate)

(* C13: with fewer than two filtered periods the comparison generator      *)
(* emits nothing; otherwise, for each requested metric, it emits one       *)
(* month-over-month insight if the metric has a reading that is present,   *)
(* not NA and non-null in both of the two most recently started periods    *)
(* and |change| > 5, and none otherwise; the severity is warning iff       *)
(* |change| > 20 and changePct is the change.  Two periods holding 80 then *)
(* 85 give exactly one comparison insight, with changePct = 6.25.          *)
C13_ComparisonMom ==
  (Done /\ Ran("comparison")) =>
    \A m \in Requested :
      LET mom == ComparisonInsights(m, "Month-over-Month Change")
          fp == filteredPeriods
      IN IF Len(fp) < 2 THEN mom = {}
         ELSE LET cur == fp[NthNewest(fp, 1)]
                  last == fp[NthNewest(fp, 2)]
                  both == HasUsableReading(cur, m) /\ HasUsableReading(last, m)
              IN /\ Cardinality(mom) =
                      IF both /\ ChangeBeyond(ValueOf(cur, m), ValueOf(last, m), 5)
                      THEN 1 ELSE 0
                 /\ \A k \in mom :
                      /\ result[k].severity =
                           IF ChangeBeyond(ValueOf(cur, m), ValueOf(last, m), 20)
                           THEN "warning" ELSE "info"
                      /\ IsChange(result[k].changePct[1], ValueOf(cur, m), ValueOf(last, m))
                 /\ (IsScenarioB /\ m = 1) =>
                      /\ Cardinality({k \in 1..Len(result) :
                                        result[k].type = "comparison"}) = 1
                      /\ \E k \in mom : result[k].changePct[1][1] * 100
                                          = 625 * result[k].changePct[1][2]

\* 80 then 85: the one comparison insight, of 6.25 percent and severity info
C13_Witness ==
  /\ Done /\ IsScenarioB
  /\ \E k \in ComparisonInsights(1, "Month-over-Month Change") :
        result[k].changePct = <<<<500, 80>>>> /\ result[k].severity = "info"

\* the newer of two periods is listed first, and its reading is compared
\* with that of the older one
C13_WitnessNewestFirst ==
  /\ Done /\ Len(periods) = 2
  /\ GetTime(periods[1].startDate) > GetTime(periods[2].startDate)
  /\ periods[1].metrics = <<Reading(1, 121)>> /\ periods[2].metrics = <<Reading(1, 100)>>
  /\ \E k \in ComparisonInsights(1, "Month-over-Month Change") :
        result[k].severity = "warning"

\* period p starts in the month one year before the month in which cur starts
StartsYearBefore(p, cur) ==
  p.startDate.y = cur.startDate.y - 1 /\ p.startDate.m = cur.startDate.m

(* C14: for each requested metric with a usable reading in the most recent *)
(* filtered period, if some filtered period starts in the same month one   *)
(* year earlier, its reading of the metric is usable and |change| > 10,    *)
(* then a year-over-year insight is emitted for the metric, of severity    *)
(* warning iff |change| > 25, whatever the reading of the period before    *)
(* the most recent one.                                                    *)
C14_YearOverYear ==
  (Done /\ Ran("comparison") /\ Len(filteredPeriods) >= 2) =>
    \A m \in Requested :
      LET fp == filteredPeriods
          cur == fp[NthNewest(fp, 1)]
      IN \A i \in 1..Len(fp) :
           ( /\ HasUsableReading(cur, m)
             /\ StartsYearBefore(fp[i], cur)
             /\ HasUsableReading(fp[i], m)
             /\ ChangeBeyond(ValueOf(cur, m), ValueOf(fp[i], m), 10) )
           => \E k \in ComparisonInsights(m, "Year-over-Year Change") :
                 result[k].severity =
                   IF ChangeBeyond(ValueOf(cur, m), ValueOf(fp[i], m), 25)
                   THEN "warning" ELSE "info"

\* what does hold: the same, when moreover the period before the most
\* recent one has a usable reading and the most recent one does not start
\* on a day that its month lacks a year earlier
YearOverYearAfterUsableMonth ==
  (Done /\ Ran("comparison") /\ Len(filteredPeriods) >= 2) =>
    \A m \in Requested :
      LET fp == filteredPeriods
          cur == fp[NthNewest(fp, 1)]
          last == fp[NthNewest(fp, 2)]
      IN \A i \in 1..Len(fp) :
           ( /\ HasUsableReading(cur, m) /\ HasUsableReading(last, m)
             /\ cur.startDate.d <= DaysInMonth(cur.startDate.y - 1, cur.startDate.m)
             /\ StartsYearBefore(fp[i], cur)
             /\ \A j \in 1..Len(fp) : StartsYearBefore(fp[j], cur) => j = i
             /\ HasUsableReading(fp[i], m)
             /\ ChangeBeyond(ValueOf(cur, m), ValueOf(fp[i], m), 10) )
           => \E k \in ComparisonInsights(m, "Year-over-Year Change") :
                 result[k].severity =
                   IF ChangeBeyond(ValueOf(cur, m), ValueOf(fp[i], m), 25)
                   THEN "warning" ELSE "info"

\* a year-over-year insight is returned
YearOverYearEmitted ==
  Done /\ ComparisonInsights(1, "Year-over-Year Change") # {}

\* the forecast insights of a title, in result
ForecastInsightsOf(title) ==
  {k \in 1..Len(result) : result[k].type = "forecast" /\ result[k].title = title}

\* twice the distance of index i (from 0) to the mean index of n points
Centred(i, n) == 2 * i - (n - 1)

\* the least-squares line through (i, s[i + 1]), i = 0..n-1, in centred form,
\* at x = n: mean(s) + (n + 1) * Sxy / Sxx, with Sxy = sum of Centred * s
\* and Sxx = sum of Centred squared
Projection(s) ==
  LET n == Len(s)
      sxy == SumSeq([i \in 1..n |-> Centred(i - 1, n) * s[i]])
      sxx == SumSeq([i \in 1..n |-> Centred(i - 1, n) * Centred(i - 1, n)])
  IN <<SumSeq(s) * sxx + n * (n + 1) * sxy, n * sxx>>

\* the projection is more than 5 away from the mean of the last three values
ProjectionFarFromAverage(s) ==
  LET p == Projection(s)
      last3 == s[Len(s)] + s[Len(s) - 1] + s[Len(s) - 2]
  IN Abs(3 * p[1] - last3 * p[2]) > 5 * 3 * p[2]

(* C15: no forecast insight for a metric with fewer than 3 points; with 3  *)
(* or more exactly one moving-average insight, of severity info and with   *)
(* the mean of the last 3 values as forecast; a linear-trend insight,      *)
(* exactly one, iff the series has at least 6 points and the least-squares *)
(* projection one step ahead is more than 5 away from the moving average.  *)
C15_Forecast ==
  (Done /\ Ran("forecast") /\ Requested = {1}) =>
    LET s == Values(prepareMetricTimeSeries(filteredPeriods, 1))
        ma == ForecastInsightsOf("Next Month Forecast")
        lin == ForecastInsightsOf("Linear Trend Forecast")
        n == Len(s)
    IN /\ \A k \in 1..Len(result) : result[k].type = "forecast" => k \in ma \cup lin
       /\ Cardinality(ma) = IF n >= 3 THEN 1 ELSE 0
       /\ \A k \in ma :
            /\ result[k].severity = "info"
            /\ LET f == result[k].reported[1]
               IN f[2] > 0 /\ 3 * f[1] = (s[n] + s[n - 1] + s[n - 2]) * f[2]
       /\ Cardinality(lin) = IF n >= 6 /\ ProjectionFarFromAverage(s) THEN 1 ELSE 0
       /\ \A k \in lin : result[k].severity = "info"

\* a series of six or more points got both forecasts
C15_Witness ==
  /\ Done /\ Ran("forecast") /\ Len(Series1) >= 6
  /\ ForecastInsightsOf("Next Month Forecast") # {}
  /\ ForecastInsightsOf("Linear Trend Forecast") # {}

\* a series of six or more points whose projection is within 5 of the
\* moving average got the moving-average forecast alone
ForecastWithoutLinear ==
  /\ Done /\ Ran("forecast") /\ Len(Series1) >= 6
  /\ ForecastInsightsOf("Next Month Forecast") # {}
  /\ ForecastInsightsOf("Linear Trend Forecast") = {}

\* a series of two points got no forecast
ForecastTooShort ==
  /\ Done /\ Ran("forecast") /\ Len(Series1) = 2
  /\ \A k \in 1..Len(result) : result[k].type # "forecast"

\* a series of three to five points got the moving-average forecast alone
ForecastShortOfLinear ==
  /\ Done /\ Ran("forecast") /\ Len(Series1) \in 3..5
  /\ ForecastInsightsOf("Next Month Forecast") # {}
  /\ ForecastInsightsOf("Linear Trend Forecast") = {}

\* the sum of the values of a function of finite domain
RECURSIVE SumOf(_)
SumOf(f) ==
  IF DOMAIN f = {} THEN 0
  ELSE LET x == CHOOSE x \in DOMAIN f : TRUE
       IN f[x] + SumOf([y \in DOMAIN f \ {x} |-> f[y]])

\* the months of a series and the value a series holds for a month
MonthsOf(series) == {series[i].month : i \in 1..Len(series)}
ValueAt(series, mo) ==
  LET last == CHOOSE i \in 1..Len(series) :
                /\ series[i].month = mo
                /\ \A j \in (i + 1)..Len(series) : series[j].month # mo
  IN series[last].value

\* Pearson's r of two functions x, y over the same finite domain, as the
\* triple <<a, X, Y>> for r = a / sqrt(X * Y), from the raw sums:
\* a = n * sum(xy) - sum(x) * sum(y), X = n * sum(xx) - sum(x)^2, Y likewise
RawPearson(x, y) ==
  LET n == Cardinality(DOMAIN x)
      sx == SumOf(x)
      sy == SumOf(y)
  IN <<n * SumOf([k \in DOMAIN x |-> x[k] * y[k]]) - sx * sy,
       n * SumOf([k \in DOMAIN x |-> x[k] * x[k]]) - sx * sx,
       n * SumOf([k \in DOMAIN x |-> y[k] * y[k]]) - sy * sy>>

\* |a / sqrt(X * Y)| > c / 100, as a^2 / X > (c / 100)^2 * Y (false when
\* X * Y = 0, where r is taken as 0)
Stronger(r, c) ==
  r[2] # 0 /\ r[3] # 0 /\ QuotientGt(r[1] * r[1], r[2], c * c * r[3], 100 * 100)

CorrelationInsights == {k \in 1..Len(result) : result[k].type = "correlation"}

\* the input is twelve months in which metric 3 rises by 1 a month and
\* metric 2 by 2, only these two being requested
IsScenarioC ==
  /\ Len(periods) = TwelveMonths
  /\ \A i \in 1..TwelveMonths :
       periods[i].metrics = <<Reading(2, 78 + 2 * i), Reading(3, 39 + i)>>
  /\ Requested = {2, 3}

(* C16: with R the requested metrics of at least 12 points and M the months *)
(* present in the series of every metric of R, no correlation insight is    *)
(* returned unless R has two metrics and M twelve months; then every        *)
(* correlation insight is about a pair of R, and each unordered pair of R   *)
(* has exactly one insight if |r| > 0.7 over the values at the months of M, *)
(* none otherwise.  Twelve months of two linearly related rising metrics    *)
(* give one insight, with r > 0.99.                                        *)
C16_Correlation ==
  (Done /\ Ran("correlation") /\ Requested \subseteq 2..4) =>
    LET s2 == prepareMetricTimeSeries(filteredPeriods, 2)
        s3 == prepareMetricTimeSeries(filteredPeriods, 3)
        s4 == prepareMetricTimeSeries(filteredPeriods, 4)
        series == [m \in 2..4 |-> IF m = 2 THEN s2 ELSE IF m = 3 THEN s3 ELSE s4]
        R == {m \in Requested : Len(series[m]) >= 12}
        M == {mo \in UNION {MonthsOf(series[m]) : m \in R} :
                \A m \in R : mo \in MonthsOf(series[m])}
        r(m1, m2) == RawPearson([mo \in M |-> ValueAt(series[m1], mo)],
                                [mo \in M |-> ValueAt(series[m2], mo)])
    IN /\ (Cardinality(R) < 2 \/ Cardinality(M) < 12) => CorrelationInsights = {}
       /\ \A k \in CorrelationInsights :
            \E m1 \in R, m2 \in R : m1 < m2 /\ result[k].metricKeys = <<m1, m2>>
       /\ (Cardinality(R) >= 2 /\ Cardinality(M) >= 12) =>
            \A m1 \in R, m2 \in R :
              m1 < m2 =>
                Cardinality({k \in CorrelationInsights : result[k].metricKeys = <<m1, m2>>})
                  = IF Stronger(r(m1, m2), 70) THEN 1 ELSE 0
       /\ IsScenarioC =>
            /\ Cardinality(CorrelationInsights) = 1
            /\ \A k \in CorrelationInsights :
                 LET c == result[k].reported[1]
                 IN c[1] > 0 /\ QuotientGt(c[1] * c[1], c[2], 99 * 99 * c[3], 100 * 100)

\* twelve months of two linearly related rising metrics got their insight
C16_Witness ==
  Done /\ Ran("correlation") /\ IsScenarioC /\ CorrelationInsights # {}

\* three retained metrics over twelve common months got insights for some
\* pairs and none for others
CorrelationSomePairs ==
  /\ Done /\ Ran("correlation") /\ Requested = {2, 3, 4}
  /\ \E k \in CorrelationInsights : result[k].metricKeys = <<2, 4>>
  /\ \E k \in CorrelationInsights : result[k].title = "Strong negative correlation"
  /\ ~\E k \in CorrelationInsights : result[k].metricKeys = <<2, 3>>

\* three metrics of twelve points each with eleven months in common got none
CorrelationTooFewCommonMonths ==
  /\ Done /\ Ran("correlation") /\ Requested = {2, 3, 4}
  /\ \A m \in Requested : Len(prepareMetricTimeSeries(filteredPeriods, m)) = 12
  /\ CorrelationInsights = {}

\* an insight without its id
WithoutId(x) == [f \in DOMAIN x \ {"id"} |-> x[f]]

(* C17: a second invocation of generateInsights with the same periods,     *)
(* tolerances and options returns the list the first one returned, ids     *)
(* included, and both leave their arguments as they were.                  *)
C17_Pure ==
  [][ /\ <<periods, tolerances, options>>' = <<periods, tolerances, options>>
      /\ (pc = "done" /\ pc' = "again") => result' = result ]_vars

\* the arguments are never modified
ArgumentsKept == [][<<periods, tolerances, options>>' = <<periods, tolerances, options>>]_vars

\* called in the same millisecond as the first call, with the clock standing
\* still during both, the second call returns the same list
SameInstantSameList ==
  [][(pc = "done" /\ pc' = "again" /\ now' = 0) => result' = result]_vars

\* the second call returned the same insights under other ids
SameButForIds ==
  /\ pc = "again" /\ now > 0 /\ Len(result) > 0
  /\ \E t \in 0..(now - 1), ticks \in Ticks(options) :
       LET first == generateInsights(periods, tolerances, options, t, ticks)
       IN /\ Len(first) = Len(result)
          /\ \A k \in 1..Len(result) :
               WithoutId(first[k]) = WithoutId(result[k]) /\ first[k].id # result[k].id

\* the place of a type in the order of the generators
Rank(type) == CHOOSE i \in 1..Len(AllTypes) : AllTypes[i] = type

\* a list of insights without their ids
WithoutIds(list) == [k \in 1..Len(list) |-> WithoutId(list[k])]

OfType(list, type) == SelectSeq(list, LAMBDA x : x.type = type)

\* what the generator of a type returns for the filtered periods, if the
\* clock ticks as given
Generated(type, ticks) ==
  IF type = "trend" THEN generateTrendInsights(filteredPeriods, options, 0)
  ELSE IF type = "anomaly"
    THEN generateAnomalyInsights(filteredPeriods, options, tolerances, 0, ticks)
  ELSE IF type = "milestone"
    THEN generateMilestoneInsights(filteredPeriods, options, tolerances, 0)
  ELSE IF type = "comparison" THEN generateComparisonInsights(filteredPeriods, options, 0)
  ELSE IF type = "forecast" THEN generateForecastInsights(filteredPeriods, options, 0)
  ELSE generateCorrelationInsights(filteredPeriods, options, 0)

\* the result holds requested types only, in the order of the generators,
\* and for each requested type all that its generator returns
RequestedTypesInOrder ==
  /\ \A k \in 1..Len(result) : Ran(result[k].type)
  /\ \A j \in 1..Len(result), k \in 1..Len(result) :
       j < k => Rank(result[j].type) <= Rank(result[k].type)
  /\ \E ticks \in Ticks(options) :
       \A i \in 1..Len(AllTypes) :
         Ran(AllTypes[i]) =>
           WithoutIds(OfType(result, AllTypes[i])) = WithoutIds(Generated(AllTypes[i], ticks))

(* C18 as stated: every call of generateInsights returns insights of the    *)
(* requested types only, in generator order, none removed or merged.        *)
C18_OnlyRequestedTypes == Done => RequestedTypesInOrder

(* C18: when a finalised period is left after filtering, generateInsights   *)
(* returns insights of the requested types only (all six when options.types *)
(* is absent), every trend insight before every anomaly insight, then       *)
(* milestone, comparison, forecast and correlation, and for each requested  *)
(* type all the insights its generator returns; when none is left it        *)
(* returns the placeholder alone, of type trend whatever was requested.     *)
C18_RequestedTypesInOrder ==
  Done => IF Len(filteredPeriods) >= 1 THEN RequestedTypesInOrder
          ELSE result = <<NoDataInsight>>

\* all six types were requested by default and each one returned insights
C18_Witness ==
  /\ Done /\ options.types = <<>> /\ Len(filteredPeriods) >= 1
  /\ \A i \in 1..Len(AllTypes) : OfType(result, AllTypes[i]) # <<>>

\* correlation and trend were requested, in this order, and the trend
\* insights came first
TwoTypesRequested ==
  /\ Done /\ options.types = <<<<"correlation", "trend">>>>
  /\ OfType(result, "trend") # <<>> /\ OfType(result, "correlation") # <<>>
  /\ result[1].type = "trend" /\ result[Len(result)].type = "correlation"

\* the placeholder was returned though trend insights were not requested
PlaceholderUnrequested ==
  Done /\ result = <<NoDataInsight>> /\ ~Ran("trend")

\* x is y but for its summary, recommendations and aiEnhanced flag
SameButForEnrichment(x, y) ==
  [x EXCEPT !.summary = y.summary, !.recommendations = y.recommendations,
            !.aiEnhanced = y.aiEnhanced] = y

\* the step is the enrichment of the generated list by the handler
Enriching == pc = "done" /\ pc' = "responded"

(* C19: after enrichment every base insight is at its position, differing   *)
(* from what it was in summary, recommendations and the aiEnhanced flag     *)
(* only, and all that follows the base list is narrative insights.          *)
C19_EnrichmentAdditive ==
  [][Enriching =>
       /\ Len(result') >= Len(result)
       /\ \A k \in 1..Len(result) : SameButForEnrichment(result'[k], result[k])
       /\ \A k \in (Len(result) + 1)..Len(result') : result'[k].title = "narrative"]_vars

\* what holds: every base insight keeps its position, id and type and all
\* its fields but summary, recommendations, the aiEnhanced flag and the
\* notes of its evidence, which are only added to; narratives come after
EnrichmentKeepsBaseList ==
  [][Enriching =>
       /\ Len(result') >= Len(result)
       /\ \A k \in 1..Len(result) :
            /\ result'[k].id = result[k].id /\ result'[k].type = result[k].type
            /\ SameButForEnrichment([result'[k] EXCEPT !.notes = result[k].notes], result[k])
            /\ Len(result'[k].notes) >= Len(result[k].notes)
            /\ SubSeq(result'[k].notes, 1, Len(result[k].notes)) = result[k].notes
       /\ \A k \in (Len(result) + 1)..Len(result') : result'[k].title = "narrative"]_vars

\* five insights were enriched and two narratives appended
EnrichedFive ==
  /\ pc = "responded"
  /\ Cardinality({k \in 1..Len(result) : result[k].aiEnhanced /\ result[k].title # "narrative"}) = 5
  /\ Cardinality({k \in 1..Len(result) : result[k].title = "narrative"}) = 2
  /\ \E k \in 1..Len(result) : ~result[k].aiEnhanced

\* some calls failed and others succeeded
EnrichedInPart ==
  /\ pc = "responded"
  /\ \E k \in 1..Len(result) : IsSevere(result[k]) /\ result[k].aiEnhanced
  /\ \E k \in 1..Len(result) : IsSevere(result[k]) /\ ~result[k].aiEnhanced
  /\ Len(SelectSeq(result, IsSevere)) <= 3

(* C20: no step changes a reading (value, NA flag, hidden flag, comment) of *)
(* a period that is finalised, and a metric update that is answered with    *)
(* success comes with no such change.                                      *)
C20_FinalisedReadingsFrozen ==
  [][\A i \in 1..Len(periods) :
       periods[i].isFinalised => periods'[i].metrics = periods[i].metrics]_vars

\* what holds: finalisation is one-way and changes no reading, and a second
\* finalisation is rejected with 400
FinalisationOneWay ==
  [][\A i \in 1..Len(periods) :
       /\ periods[i].isFinalised => periods'[i].isFinalised
       /\ periods'[i].isFinalised # periods[i].isFinalised =>
            periods'[i].metrics = periods[i].metrics /\ status' = 200
       /\ status' = 400 => periods' = periods]_vars

\* a reading of a finalised period holds what a metric update wrote
FinalisedReadingChanged ==
  \E i \in 1..Len(periods) :
    /\ periods[i].isFinalised
    /\ periods[i].metrics[1].insight = "comment"
    /\ status = 200

\* v lies more than c population standard deviations (not 0) from the mean of h
BeyondSigmas(h, v, c) ==
  LET dev == Deviation(h, v)
      spread == Spread(h)
  IN spread > 0 /\ dev * dev > c * c * spread

ZScoreWarning ==
  /\ Done /\ Len(Series1) >= 6
  /\ \E k \in ZScoreInsights : result[k].severity = "warning"

\* a latest value 2 standard deviations away exactly, on the bad side, got
\* no z-score insight
ZScoreAtThreshold ==
  /\ Done /\ Ran("anomaly") /\ Len(Series1) >= 6
  /\ LET dev == Deviation(Prior(Series1), Latest(Series1))
     IN dev # 0 /\ dev * dev = 4 * Spread(Prior(Series1))
        /\ (LowerBetter1 <=> dev > 0)
  /\ ZScoreInsights = {}

\* s has a pair of equal consecutive values
HasFlatStep(s) == \E j \in 1..(Len(s) - 1) : s[j] = s[j + 1]

(* C23: for a metric with at least 3 points a streak insight is emitted iff *)
(* the whole series holds a run of at least 4 consecutive points that rise  *)
(* strictly or fall strictly (equal neighbours belong to no common run),    *)
(* and the length it reports is that of the longest such run.               *)
C23_StreakIffRun ==
  (Done /\ Ran("milestone") /\ Requested = {1}) =>
    LET s == Series1
    IN Len(s) >= 3 =>
         /\ StreakInsights # {} <=> (HasRun(s, 4, TRUE) \/ HasRun(s, 4, FALSE))
         /\ \A k \in StreakInsights :
              \E n \in 4..Len(s) :
                /\ result[k].reported = <<<<n, 1>>>>
                /\ HasRun(s, n, TRUE) \/ HasRun(s, n, FALSE)
                /\ ~HasRun(s, n + 1, TRUE) /\ ~HasRun(s, n + 1, FALSE)

\* a streak of 5 amid a series of 7 points, cut off by a flat step, was
\* reported with its length
C23_Witness ==
  /\ Done /\ Len(Series1) = 7 /\ HasFlatStep(Series1)
  /\ \E k \in StreakInsights : result[k].reported = <<<<5, 1>>>>

\* two runs of 3 points parted by a flat step: no streak insight
StreakBrokenByFlatStep ==
  /\ Done /\ Ran("milestone")
  /\ Series1 = <<50, 55, 60, 60, 65, 70>>
  /\ StreakInsights = {}

(* C26: the evidence values of a streak insight are the points of the       *)
(* reported streak: as many as the reported length, rising strictly for an  *)
(* improvement streak and falling strictly for a decline streak.            *)
C26_StreakEvidence ==
  Done =>
    \A k \in StreakInsights :
      LET ev == [i \in 1..Len(result[k].values) |-> result[k].values[i].value]
      IN /\ result[k].reported = <<<<Len(ev), 1>>>>
         /\ IsRun(ev, 1, Len(ev), result[k].title = "Improvement Streak")

\* what holds: the evidence is the most recent points, as many as the
\* reported length, and is the streak when the longest run ends at the
\* most recent point
StreakEvidenceIsTail ==
  Done =>
    \A k \in StreakInsights :
      LET ev == [i \in 1..Len(result[k].values) |-> result[k].values[i].value]
          s == Series1
          up == result[k].title = "Improvement Streak"
      IN /\ result[k].reported = <<<<Len(ev), 1>>>>
         /\ ev = SubSeq(s, Len(s) - Len(ev) + 1, Len(s))
         /\ IsRun(s, Len(s) - Len(ev) + 1, Len(ev), up) => IsRun(ev, 1, Len(ev), up)

\* a streak that ends before the most recent point, reported with the most
\* recent points as evidence
StreakEvidenceOffRun ==
  /\ Done
  /\ \E k \in StreakInsights :
       LET ev == [i \in 1..Len(result[k].values) |-> result[k].values[i].value]
       IN ~IsRun(ev, 1, Len(ev), TRUE) /\ ~IsRun(ev, 1, Len(ev), FALSE)

\* all the values of h are equal
IsFlat(h) == \A i \in 1..Len(h), j \in 1..Len(h) : h[i] = h[j]

(* C24: when all the points of a metric but the latest are equal, the       *)
(* anomaly generator emits no anomaly insight for it, z-score or IQR,       *)
(* whatever the latest value and the polarity.                              *)
C24_FlatHistoryNeverAnomalous ==
  (Done /\ Len(Series1) >= 2 /\ IsFlat(Prior(Series1))) =>
    ZScoreInsights \cup IqrInsights = {}

\* what holds: a flat history gives no z-score insight, and an IQR insight
\* only for a latest value on the bad side of the flat level
FlatHistoryNoZScore ==
  (Done /\ Len(Series1) >= 2 /\ IsFlat(Prior(Series1))) =>
    /\ ZScoreInsights = {}
    /\ IqrInsights # {} =>
         IF LowerBetter1 THEN Latest(Series1) > Series1[1]
                         ELSE Latest(Series1) < Series1[1]

\* six equal points and a different latest one, reported as an outlier
FlatHistoryFlagged ==
  /\ Done /\ Len(Series1) = 7 /\ IsFlat(Prior(Series1))
  /\ IqrInsights # {}

\* the ids of the result are pairwise distinct
DistinctIds == \A j \in 1..Len(result), k \in 1..Len(result) : result[j].id = result[k].id => j = k

\* the list of requested metric numbers names no metric twice
NoMetricTwice ==
  LET mns == MetricNumbersOf(options)
  IN \A i \in 1..Len(mns), j \in 1..Len(mns) : mns[i] = mns[j] => i = j

(* C25: the ids of the insights returned by one call of generateInsights    *)
(* are pairwise distinct, for every list of periods and every list of       *)
(* requested metric numbers and types.                                      *)
C25_DistinctIds == Done => DistinctIds

\* what holds: the ids are distinct when no metric number is requested twice
DistinctIdsOfDistinctMetrics == (Done /\ NoMetricTwice) => DistinctIds

\* all six generators returned insights, under distinct ids
DistinctIdsAllTypes ==
  /\ Done /\ NoMetricTwice /\ DistinctIds
  /\ \A i \in 1..Len(AllTypes) : OfType(result, AllTypes[i]) # <<>>
  /\ Len(result) >= 8

----------------------------------------------------------------------------
(* The admin data endpoint: POST seeds the sample data, DELETE removes it. *)
(* The handlers are modelled as the route file has them, and as the copy   *)
(* of the route that calls checkAdminAuth has them.                        *)

\* the most requests a behaviour receives
MaxRequests == 3

\* the day the model's clock starts on
Today == Date(2025, 1, 15)

\* new Date() at the t-th millisecond of the model's clock
Instant(t) == [date |-> Today, ms |-> t]

\* a reporting period as the database holds it
StoredPeriod(id, label, startDate, isFinalised, finalisedAt, metrics) ==
  [id |-> id, label |-> label, startDate |-> startDate, isFinalised |-> isFinalised,
   finalisedAt |-> finalisedAt, metrics |-> metrics]

\* the labels of MONTHS, May 2024 to December 2024
MONTHS ==
  <<"May 2024", "June 2024", "July 2024", "August 2024", "September 2024",
    "October 2024", "November 2024", "December 2024">>

\* BASE_VALUES[1], the seeded values of metric 1
BASE_VALUES ==
  <<85, 87, 89, 91, 92, 93, 94, 95>>

\* the periods seedSampleData creates, finalised at the end of their last
\* day; of the eleven seeded metrics the model keeps metric 1
SeedPeriods ==
  [i \in 1..Len(MONTHS) |->
     StoredPeriod(100 + i, MONTHS[i], Monthly(4 + i), TRUE,
                  <<[date |-> Date(2024, 4 + i, DaysInMonth(2024, 4 + i)), ms |-> 86399000]>>,
                  <<[Reading(1, BASE_VALUES[i]) EXCEPT !.insight = "seeded"]>>)]

\* seedSampleData: one period per month of MONTHS
seedSampleData(ps) == ps \o SeedPeriods

\* deleteSeedData: deleteMany of the finalised periods that carry a seed label
deleteSeedData(ps) ==
  SelectSeq(ps, LAMBDA p : ~(p.label \in Range(MONTHS) /\ p.isFinalised))

\* checkAdminAuth(request): 0 for null (the request may proceed), or the
\* status of the error response; header is the x-admin-secret header,
\* <<>> when the request has none
checkAdminAuth(e, header) ==
  IF e.ADMIN_SECRET = <<>> THEN 0
  ELSE IF header = <<>> \/ header[1] = "" THEN 401
  ELSE IF header[1] # e.ADMIN_SECRET[1] THEN 403
  ELSE 0

\* the x-admin-secret header of a request: none, empty, wrong or right
Headers == {<<>>, <<"">>, <<"guess">>, <<"s3cret">>}

Request(route, method, header) == [route |-> route, method |-> method, header |-> header]

\* the handler received a request: it is appended to the requests seen
Received(request) ==
  /\ Len(requests) < MaxRequests
  /\ requests' = Append(requests, request)

\* POST of the route file: seeds unless periods are present; the handler
\* takes no request and looks at no header
AdminDataPOST ==
  /\ \E header \in Headers : Received(Request("admin/data", "POST", header))
  /\ IF Len(periods) > 0
     THEN status' = 400 /\ UNCHANGED periods
     ELSE status' = 200 /\ periods' = seedSampleData(periods)
  /\ UNCHANGED <<tolerances, options, now, pc, filteredPeriods, result, env, cache, logs, logged>>

\* DELETE of the route file
AdminDataDELETE ==
  /\ \E header \in Headers : Received(Request("admin/data", "DELETE", header))
  /\ status' = 200
  /\ periods' = deleteSeedData(periods)
  /\ UNCHANGED <<tolerances, options, now, pc, filteredPeriods, result, env, cache, logs, logged>>

\* POST of the copy of the route that checks the admin secret first
CheckedAdminDataPOST ==
  /\ \E header \in Headers :
        /\ Received(Request("admin/data", "POST", header))
        /\ LET authError == checkAdminAuth(env, header)
           IN IF authError # 0 THEN status' = authError /\ UNCHANGED periods
              ELSE IF Len(periods) > 0 THEN status' = 400 /\ UNCHANGED periods
              ELSE status' = 200 /\ periods' = seedSampleData(periods)
  /\ UNCHANGED <<tolerances, options, now, pc, filteredPeriods, result, env, cache, logs, logged>>

\* DELETE of the copy of the route that checks the admin secret first
CheckedAdminDataDELETE ==
  /\ \E header \in Headers :
        /\ Received(Request("admin/data", "DELETE", header))
        /\ LET authError == checkAdminAuth(env, header)
           IN IF authError # 0 THEN status' = authError /\ UNCHANGED periods
              ELSE status' = 200 /\ periods' = deleteSeedData(periods)
  /\ UNCHANGED <<tolerances, options, now, pc, filteredPeriods, result, env, cache, logs, logged>>

NextAdmin ==
  AdminDataPOST \/ AdminDataDELETE \/ CheckedAdminDataPOST \/ CheckedAdminDataDELETE

\* the database before the requests: empty, seeded, a draft of the user's
\* own, or seeded with a period of the user's own
AdminPeriods ==
  LET own(f) == StoredPeriod(1, "January 2025", Monthly(13), f,
                             IF f THEN <<Instant(0)>> ELSE <<>>, <<Reading(1, 80)>>)
  IN {<<>>, SeedPeriods, <<own(FALSE)>>, <<own(TRUE)>>, <<own(FALSE)>> \o SeedPeriods}

InitAdmin ==
  /\ periods \in AdminPeriods
  /\ env \in {[ADMIN_SECRET |-> <<>>], [ADMIN_SECRET |-> <<"s3cret">>]}
  /\ tolerances = <<>>
  /\ options = Options(<<>>, <<>>, <<>>)
  /\ now = 0
  /\ pc = "idle"
  /\ filteredPeriods = <<>>
  /\ result = <<>>
  /\ status = 0
  /\ requests = <<>>
  /\ cache = NoCache
  /\ logs = <<>>
  /\ logged = <<>>

SpecAdmin == InitAdmin /\ [][NextAdmin]_vars

\* the request the step from this state to the next has answered
Answered == requests'[Len(requests')]

\* the step answers a POST or DELETE of the admin data endpoint
AdminDataStep ==
  /\ Len(requests') = Len(requests) + 1
  /\ Answered.route = "admin/data"
  /\ Answered.method \in {"POST", "DELETE"}

\* C21: when ADMIN_SECRET is configured, a POST or DELETE of the admin data
\* endpoint without the x-admin-secret header is answered 401, one whose
\* header differs from the secret 403, and neither changes the data
C21_AdminDataGuarded ==
  [][(AdminDataStep /\ env.ADMIN_SECRET # <<>>) =>
       /\ Answered.header = <<>> => (status' = 401 /\ periods' = periods)
       /\ (Answered.header # <<>> /\ Answered.header # env.ADMIN_SECRET)
            => (status' = 403 /\ periods' = periods)]_vars

\* a request without the header has changed the data under a configured secret
AdminDataChangedWithoutSecret ==
  /\ env.ADMIN_SECRET # <<>>
  /\ requests # <<>>
  /\ requests[Len(requests)].header = <<>>
  /\ status = 200
  /\ periods # <<>>

----------------------------------------------------------------------------
(* The finalise endpoint, one await at a time: handlers of several         *)
(* requests run interleaved, each between its findUnique and its update.   *)

\* a finalise request in flight: the id it names, the await its handler
\* stands before, and the status it was answered with (0: not yet)
FinaliseRequest(id) ==
  [route |-> "periods/finalise", method |-> "POST", id |-> id, at |-> "findUnique",
   status |-> 0]

\* the index of the period with the id, 0 if there is none
IndexOfPeriod(ps, id) ==
  IF \E i \in 1..Len(ps) : ps[i].id = id
  THEN CHOOSE i \in 1..Len(ps) : ps[i].id = id
  ELSE 0

\* the ids requests name: the periods of the database and one that is unknown
RequestedIds == {1, 2, 9}

\* a finalise request arrives
FinaliseReceive ==
  /\ \E id \in RequestedIds : Received(FinaliseRequest(id))
  /\ UNCHANGED <<periods, tolerances, options, now, pc, filteredPeriods, result, status,
                 env, cache, logs, logged>>

\* the handler of the k-th request up to its second await: findUnique, 404
\* for no period, 400 for a finalised one
FinaliseFindUnique(k) ==
  /\ requests[k].at = "findUnique"
  /\ LET i == IndexOfPeriod(periods, requests[k].id)
         answer == IF i = 0 THEN 404 ELSE IF periods[i].isFinalised THEN 400 ELSE 0
     IN /\ requests' = [requests EXCEPT ![k].at = IF answer = 0 THEN "update" ELSE "done",
                                        ![k].status = answer]
        /\ status' = IF answer = 0 THEN status ELSE answer
  /\ \E dt \in 0..MaxTick : now' = now + dt
  /\ UNCHANGED <<periods, tolerances, options, pc, filteredPeriods, result,
                 env, cache, logs, logged>>

\* the rest of the handler of the k-th request: the update that sets
\* isFinalised and finalisedAt, and the answer
FinaliseUpdate(k) ==
  /\ requests[k].at = "update"
  /\ LET i == IndexOfPeriod(periods, requests[k].id)
     IN periods' = [periods EXCEPT ![i].isFinalised = TRUE,
                                   ![i].finalisedAt = <<Instant(now)>>]
  /\ requests' = [requests EXCEPT ![k].at = "done", ![k].status = 200]
  /\ status' = 200
  /\ \E dt \in 0..MaxTick : now' = now + dt
  /\ UNCHANGED <<tolerances, options, pc, filteredPeriods, result, env, cache, logs, logged>>

NextFinalise ==
  \/ FinaliseReceive
  \/ \E k \in 1..Len(requests) : FinaliseFindUnique(k)
  \/ \E k \in 1..Len(requests) : FinaliseUpdate(k)

\* the database before the requests: a draft, and a period that is a draft
\* or was finalised
FinalisePeriods ==
  {<<StoredPeriod(1, "January 2025", Monthly(13), FALSE, <<>>, <<Reading(1, 80)>>),
     StoredPeriod(2, "December 2024", Monthly(12), f,
                  IF f THEN <<Instant(0)>> ELSE <<>>, <<Reading(1, 85)>>)>>
     : f \in BOOLEAN}

InitFinalise ==
  /\ periods \in FinalisePeriods
  /\ env = [ADMIN_SECRET |-> <<>>]
  /\ tolerances = <<>>
  /\ options = Options(<<>>, <<>>, <<>>)
  /\ now = 1
  /\ pc = "idle"
  /\ filteredPeriods = <<>>
  /\ result = <<>>
  /\ status = 0
  /\ requests = <<>>
  /\ cache = NoCache
  /\ logs = <<>>
  /\ logged = <<>>

SpecFinalise == InitFinalise /\ [][NextFinalise]_vars

\* the requests for the period with the id that were answered 200
Succeeded(id) == {k \in 1..Len(requests) : requests[k].id = id /\ requests[k].status = 200}

\* C27: a period is finalised at most once, also when handlers interleave:
\* of the requests for one period at most one is answered 200, the others 400
C27_FinalisedOnce ==
  \A id \in RequestedIds : Cardinality(Succeeded(id)) <= 1

\* finalisedAt, once set, is not set again
FinalisedAtSetOnce ==
  [][\A i \in 1..Len(periods) :
       periods[i].finalisedAt # <<>> => periods'[i].finalisedAt = periods[i].finalisedAt]_vars

\* a period that is finalised stays finalised and keeps a finalisation time
FinalisedStaysFinalised ==
  [][\A i \in 1..Len(periods) :
       periods[i].isFinalised => (periods'[i].isFinalised /\ periods'[i].finalisedAt # <<>>)]_vars
----------------------------------------------------------------------------
(* The tolerance endpoints and the Redis cache: the PATCH of one band, the *)
(* cached list endpoint, and the insights request, which loads the bands   *)
(* through the same cache key.                                             *)

\* the most half hours a behaviour lets pass
MaxHalfHours == 3

\* the seconds the tolerance list is cached for
ToleranceTtl == 3600

\* the seconds a response of the insights request is cached for
InsightsTtl == 300

\* a tolerance band as the database holds it: createTolerance with the
\* band's flat tolerance
ToleranceBand(m, isLowerBetter, flatTolerance) ==
  [metricNumber |-> m, isLowerBetter |-> isLowerBetter, flatTolerance |-> flatTolerance,
   greenOperator |-> "range", greenMin |-> <<90>>, greenMax |-> <<100>>,
   redOperator |-> "range", redMin |-> <<0>>, redMax |-> <<74>>]

\* CacheKeys.toleranceBands, and CacheKeys.insights(12, '1', 'milestone')
ToleranceBandsKey == "tolerance:bands"
InsightsKey == "insights:12:1:milestone"

\* get(key) at time t: <<>> for null, when caching is off or no live entry
\* has the key.  The values cached here are lists of numbers, strings and
\* booleans, which JSON.stringify and JSON.parse give back unchanged.
cacheGet(c, key, t) ==
  IF ~c.enabled THEN <<>>
  ELSE IF \E e \in c.store : e.key = key /\ e.expires > t
       THEN <<(CHOOSE e \in c.store : e.key = key /\ e.expires > t).value>>
       ELSE <<>>

\* set(key, value, ttl) at time t: setex replaces the entry of the key
cacheSet(c, key, value, ttl, t) ==
  IF ~c.enabled THEN c
  ELSE [c EXCEPT !.store = {e \in @ : e.key # key}
                             \cup {[key |-> key, value |-> value, expires |-> t + ttl * 1000]}]

\* the tolerance bands a handler works with: the cached list if there is
\* one, else the bands of the database
LoadedTolerances(c, tols, t) ==
  LET cached == cacheGet(c, ToleranceBandsKey, t)
  IN IF cached # <<>> THEN cached[1] ELSE tols

\* the cache after a handler loaded the bands: a list read from the
\* database is cached for an hour
CacheAfterLoad(c, tols, t) ==
  IF cacheGet(c, ToleranceBandsKey, t) # <<>> THEN c
  ELSE cacheSet(c, ToleranceBandsKey, tols, ToleranceTtl, t)

\* the fields of the body of a tolerance update that the model varies, each
\* absent (<<>>) or given
ToleranceBodies ==
  [isLowerBetter : {<<>>, <<TRUE>>, <<FALSE>>}, flatTolerance : {<<>>, <<2>>}]

\* the data of prisma.toleranceBand.update: a field that is undefined is
\* left alone
UpdateTolerance(band, body) ==
  [band EXCEPT
     !.isLowerBetter = IF body.isLowerBetter # <<>> THEN body.isLowerBetter[1] ELSE @,
     !.flatTolerance = IF body.flatTolerance # <<>> THEN body.flatTolerance[1] ELSE @]

\* a request of the tolerance specification; loaded is the list of bands
\* the handler worked with, <<>> if it loaded none
ToleranceRequest(route, method, loaded) ==
  [route |-> route, method |-> method, loaded |-> loaded]

\* PATCH of the band of a metric; the update of a band that does not exist
\* throws, which is answered 500
TolerancePATCH ==
  /\ \E metricNum \in {1, 9}, body \in ToleranceBodies :
        IF \E i \in 1..Len(tolerances) : tolerances[i].metricNumber = metricNum
        THEN LET i == CHOOSE j \in 1..Len(tolerances) : tolerances[j].metricNumber = metricNum
             IN /\ tolerances' = [tolerances EXCEPT ![i] = UpdateTolerance(@, body)]
                /\ result' = <<tolerances'[i]>>
                /\ status' = 200
        ELSE /\ status' = 500
             /\ result' = <<>>
             /\ UNCHANGED tolerances
  /\ Received(ToleranceRequest("tolerances/[metricNumber]", "PATCH", <<>>))
  /\ UNCHANGED <<periods, options, now, pc, filteredPeriods, env, cache, logs, logged>>

\* GET of the cached list endpoint
TolerancesGET ==
  /\ result' = LoadedTolerances(cache, tolerances, now)
  /\ cache' = CacheAfterLoad(cache, tolerances, now)
  /\ status' = 200
  /\ Received(ToleranceRequest("tolerances", "GET", <<result'>>))
  /\ UNCHANGED <<periods, tolerances, options, now, pc, filteredPeriods, env, logs, logged>>

\* the periods the insights request fetches: finalised, newest first, at
\* most max(timeRange + 2, 24) of them
FetchedPeriods(ps, timeRange) ==
  FirstN(SortPeriodsDesc(SelectSeq(ps, LAMBDA p : p.isFinalised)),
         IF timeRange + 2 > 24 THEN timeRange + 2 ELSE 24)

\* GET of the insights with timeRange=12, metrics=1, types=milestone and
\* no AI: the cached response if there is one, else the insights of the
\* fetched periods and the loaded bands, cached for five minutes
InsightsGET ==
  /\ LET cached == cacheGet(cache, InsightsKey, now)
     IN IF cached # <<>>
        THEN /\ result' = cached[1]
             /\ Received(ToleranceRequest("insights", "GET", <<>>))
             /\ UNCHANGED <<cache, now>>
        ELSE \E ticks \in Ticks(options) :
               LET loaded == LoadedTolerances(cache, tolerances, now)
               IN /\ result' = generateInsights(FetchedPeriods(periods, 12), loaded,
                                                options, now, ticks)
                  /\ cache' = cacheSet(CacheAfterLoad(cache, tolerances, now),
                                       InsightsKey, result', InsightsTtl, now)
                  /\ now' = now + SumSeq(ticks)
                  /\ Received(ToleranceRequest("insights", "GET", <<loaded>>))
  /\ status' = 200
  /\ UNCHANGED <<periods, tolerances, options, pc, filteredPeriods, env, logs, logged>>

\* half an hour passes
PassTime ==
  /\ now < MaxHalfHours * ((ToleranceTtl * 1000) \div 2)
  /\ now' = now + (ToleranceTtl * 1000) \div 2
  /\ UNCHANGED <<periods, tolerances, options, pc, filteredPeriods, result, status, serverVars>>

NextTolerances == TolerancePATCH \/ TolerancesGET \/ InsightsGET \/ PassTime

\* five rising months of metric 1 and its band; Redis connected or not
InitTolerances ==
  /\ periods = SeriesPeriods(<<50, 55, 60, 65, 70>>)
  /\ tolerances = <<ToleranceBand(1, FALSE, 1)>>
  /\ options = Options(<<12>>, <<<<1>>>>, <<<<"milestone">>>>)
  /\ cache \in {[enabled |-> b, store |-> {}] : b \in BOOLEAN}
  /\ env = [ADMIN_SECRET |-> <<>>]
  /\ now = 0
  /\ pc = "idle"
  /\ filteredPeriods = <<>>
  /\ result = <<>>
  /\ status = 0
  /\ requests = <<>>
  /\ logs = <<>>
  /\ logged = <<>>

SpecTolerances == InitTolerances /\ [][NextTolerances]_vars

\* the step answers a request whose handler loaded the tolerance bands
ToleranceReadStep ==
  /\ Len(requests') = Len(requests) + 1
  /\ Answered.method = "GET"
  /\ Answered.loaded # <<>>

\* C28: a handler that loads the tolerance bands, be it the cached list
\* endpoint or the insights request, works with the bands as the updates
\* before it left them: no list cached before an update is served after it
C28_ReadsObserveUpdates ==
  [][ToleranceReadStep => Answered.loaded[1] = tolerances]_vars

\* without a cache every read observes the updates before it
ReadsObserveUpdatesWithoutCache ==
  [][(ToleranceReadStep /\ ~cache.enabled) => Answered.loaded[1] = tolerances]_vars

\* a list that is out of date is one the cache still holds: it was cached
\* less than an hour before
StaleOnlyFromLiveCache ==
  [][(ToleranceReadStep /\ Answered.loaded[1] # tolerances) =>
       cacheGet(cache, ToleranceBandsKey, now) = Answered.loaded]_vars

----------------------------------------------------------------------------
(* The in-memory log store of lib/logging: log() and clearLogs() *)

\* the most entries the store keeps
MAX_LOGS == 1000

\* the entry log() builds at time t; r stands for the random part of the
\* id.  details, errorCode and metadata are left out.
LogEntry(level, source, message, t, r) ==
  [id |-> <<t, r>>, timestamp |-> t, level |-> level, source |-> source,
   message |-> message]

\* mutant: the store never drops an entry
logMutant(ls, entry) == Append(ls, entry)

\* the store after log(): the entry is pushed and, if the store then holds
\* more than MAX_LOGS entries, the oldest one is shifted out
log(ls, entry) ==
  LET pushed == Append(ls, entry)
  IN IF Len(pushed) > MAX_LOGS THEN Tail(pushed) ELSE pushed

\* the store after clearLogs(): logs.length = 0
clearLogs(ls) == <<>>

\* a call of a function of the logging module
Call(name) == [route |-> "lib/logging", method |-> name]

\* log(level, 'api', message); logged keeps every entry logged since the
\* store was last cleared
Log ==
  /\ \E level \in {"info", "error"}, r \in 0..1 :
       LET entry == LogEntry(level, "api", "message", now, r)
       IN /\ logs' = log(logs, entry)
          /\ logged' = Append(logged, entry)
  /\ Received(Call("log"))
  /\ UNCHANGED <<periods, tolerances, options, now, pc, filteredPeriods, result, status,
                 env, cache>>

\* clearLogs()
ClearLogs ==
  /\ logs' = clearLogs(logs)
  /\ logged' = <<>>
  /\ Received(Call("clearLogs"))
  /\ UNCHANGED <<periods, tolerances, options, now, pc, filteredPeriods, result, status,
                 env, cache>>

NextLogs == Log \/ ClearLogs

\* n entries logged when the server started
Backlog(n) == [i \in 1..n |-> LogEntry("info", "system", "started", 0, i)]

\* the store as n calls of log() since the last clear leave it, for an
\* empty store and for stores at and just under MAX_LOGS entries
InitLogs ==
  /\ \E n \in {0, MAX_LOGS - 2, MAX_LOGS - 1, MAX_LOGS} :
        /\ logs = Backlog(n)
        /\ logged = Backlog(n)
  /\ periods = <<>>
  /\ tolerances = <<>>
  /\ options = Options(<<>>, <<>>, <<>>)
  /\ env = [ADMIN_SECRET |-> <<>>]
  /\ cache = NoCache
  /\ now = 1
  /\ pc = "idle"
  /\ filteredPeriods = <<>>
  /\ result = <<>>
  /\ status = 0
  /\ requests = <<>>

SpecLogs == InitLogs /\ [][NextLogs]_vars

\* C29: after any sequence of log() and clearLogs() the store holds at most
\* MAX_LOGS entries, and they are the most recent entries logged since the
\* last clear, in the order they were logged
C29_LogStoreBounded ==
  /\ Len(logs) <= MAX_LOGS
  /\ logs = LastN(logged, MAX_LOGS)

\* more than MAX_LOGS entries were logged since the last clear, the last of
\* them by a call of log(), so the store has dropped its oldest entries
LogStoreOverflowed ==
  /\ Len(logged) > MAX_LOGS
  /\ requests # <<>>
  /\ requests[Len(requests)].method = "log"

\* an entry was logged after the store was cleared
LoggedAfterClear ==
  /\ Len(requests) >= 2
  /\ requests[Len(requests) - 1].method = "clearLogs"
  /\ requests[Len(requests)].method = "log"
  /\ Len(logs) = 1

----------------------------------------------------------------------------
(* calculateTrend of lib/trends, as the export handlers call it for a      *)
(* metric of the period they export                                        *)

\* CONFIG.TREND_HISTORY_PERIODS
TREND_HISTORY_PERIODS == 6

\* the usable values of a metric in a list of periods, in the list's order
UsableValues(ps, metricNumber) ==
  LET found(i) == FindMetric(ps[i], metricNumber)
      RECURSIVE from(_)
      from(i) == IF i > Len(ps) THEN <<>>
                 ELSE IF Usable(found(i)) THEN <<found(i)[1].value[1]>> \o from(i + 1)
                 ELSE from(i + 1)
  IN from(1)

\* the direction of a change from previous to recent under a band's
\* flat tolerance and polarity
Direction(previous, recent, flatTolerance, isLowerBetter) ==
  IF Abs(recent - previous) < flatTolerance THEN "flat"
  ELSE IF isLowerBetter THEN (IF recent > previous THEN "down" ELSE "up")
  ELSE (IF recent > previous THEN "up" ELSE "down")

\* toleranceBand?.flatTolerance ?? 1.0 and toleranceBand?.isLowerBetter ?? false
FlatToleranceOf(toleranceBand) ==
  IF toleranceBand = <<>> THEN 1 ELSE toleranceBand[1].flatTolerance
LowerBetterOf(toleranceBand) ==
  IF toleranceBand = <<>> THEN FALSE ELSE toleranceBand[1].isLowerBetter

\* the values calculateTrend collects: those of the last
\* TREND_HISTORY_PERIODS finalised periods other than the current one,
\* newest first, and then the current one
TrendValues(metricNumber, currentPeriod, historicalPeriods) ==
  LET sortedPeriods == FirstN(SortPeriodsDesc(SelectSeq(historicalPeriods,
                                LAMBDA p : p.isFinalised /\ p.id # currentPeriod.id)),
                              TREND_HISTORY_PERIODS)
  IN UsableValues(sortedPeriods, metricNumber)
       \o UsableValues(<<currentPeriod>>, metricNumber)

\* calculateTrend(metricNumber, currentPeriod, historicalPeriods, toleranceBand);
\* toleranceBand is <<>> for null
calculateTrend(metricNumber, currentPeriod, historicalPeriods, toleranceBand) ==
  LET values == TrendValues(metricNumber, currentPeriod, historicalPeriods)
  IN IF Len(values) < 2 THEN [direction |-> "flat", values |-> values]
     ELSE [direction |-> Direction(values[Len(values) - 1], values[Len(values)],
                                   FlatToleranceOf(toleranceBand),
                                   LowerBetterOf(toleranceBand)),
           values |-> values]

\* the period the trend is asked for, and the metric
TrendOptions(periodId, metricNumber) == [periodId |-> periodId, metricNumber |-> metricNumber]

\* the period with the id of the request
CurrentPeriod == periods[IndexOfPeriod(periods, options.periodId)]

\* the finalised periods other than the current one, newest first, as the
\* export handlers fetch them
HistoricalPeriods ==
  SortPeriodsDesc(SelectSeq(periods, LAMBDA p : p.isFinalised /\ p.id # options.periodId))

\* the trend of the metric in the export of a period
Trend ==
  /\ pc = "idle"
  /\ result' = calculateTrend(options.metricNumber, CurrentPeriod, HistoricalPeriods,
                              FindTolerance(tolerances, options.metricNumber))
  /\ pc' = "done"
  /\ UNCHANGED <<periods, tolerances, options, now, filteredPeriods, status, serverVars>>

NextTrend == Trend

\* the readings of metric 1 a period may hold
TrendReadings == {NAReading(1, 50)} \cup {Reading(1, v) : v \in {50, 90, 91}}

\* up to MaxPeriods monthly periods, each finalised or not
TrendPeriods ==
  {[i \in 1..Len(q) |-> Period(i, Monthly(i), q[i][1], <<q[i][2]>>)]
     : q \in SeqsOf(BOOLEAN \X TrendReadings, 1, MaxPeriods)}

InitTrend ==
  /\ periods \in TrendPeriods
  /\ \E id \in 1..Len(periods) : options = TrendOptions(id, 1)
  /\ tolerances \in {<<>>, <<ToleranceBand(1, FALSE, 1)>>, <<ToleranceBand(1, TRUE, 2)>>}
  /\ env = [ADMIN_SECRET |-> <<>>]
  /\ cache = NoCache
  /\ now = 0
  /\ pc = "idle"
  /\ filteredPeriods = <<>>
  /\ result = <<>>
  /\ status = 0
  /\ requests = <<>>
  /\ logs = <<>>
  /\ logged = <<>>

SpecTrend == InitTrend /\ [][NextTrend]_vars

\* the usable values of the finalised periods other than the current one,
\* newest first
HistoryValuesOf == UsableValues(HistoricalPeriods, options.metricNumber)

\* the current period has a usable reading of the metric
CurrentUsable == Usable(FindMetric(CurrentPeriod, options.metricNumber))

CurrentValue == FindMetric(CurrentPeriod, options.metricNumber)[1].value[1]

\* C30: the trend of a metric with a usable current reading is the
\* movement from the most recent finalised period, other than the current
\* one, that has a usable reading to the current period: flat without
\* such a period or for a change below the flat tolerance, else up for an
\* improvement and down for a degradation
C30_TrendFromLatestFinalised ==
  (pc = "done" /\ CurrentUsable) =>
    result.direction =
      IF HistoryValuesOf = <<>> THEN "flat"
      ELSE Direction(HistoryValuesOf[1], CurrentValue,
                     FlatToleranceOf(FindTolerance(tolerances, options.metricNumber)),
                     LowerBetterOf(FindTolerance(tolerances, options.metricNumber)))

\* what the code computes: with a usable current reading, the movement from
\* the oldest usable value of the history kept to the current period
TrendFromOldestKept ==
  (pc = "done" /\ CurrentUsable) =>
    result.direction =
      IF HistoryValuesOf = <<>> THEN "flat"
      ELSE Direction(HistoryValuesOf[Len(HistoryValuesOf)], CurrentValue,
                     FlatToleranceOf(FindTolerance(tolerances, options.metricNumber)),
                     LowerBetterOf(FindTolerance(tolerances, options.metricNumber)))

\* without a usable current reading the trend is the movement between the
\* two oldest usable values of the history, if there are two
TrendWithoutCurrent ==
  (pc = "done" /\ ~CurrentUsable /\ Len(HistoryValuesOf) >= 2) =>
    result.direction =
      Direction(HistoryValuesOf[Len(HistoryValuesOf) - 1], HistoryValuesOf[Len(HistoryValuesOf)],
                FlatToleranceOf(FindTolerance(tolerances, options.metricNumber)),
                LowerBetterOf(FindTolerance(tolerances, options.metricNumber)))

====
